---- MODULE Spec2Model ----
(***************************************************************************)
(* Model of the metered proxy / settlement engine of project_moria:        *)
(* the proxy handler and the route pricer (routes/proxy.ts), the top-up    *)
(* status handler (routes/sessions.ts), the fee calculator (billing) and   *)
(* the L402 voucher service and path matcher (services/alby.ts).           *)
(*                                                                         *)
(* Every `await` on the database, the payment rail or the upstream is one  *)
(* atomic step; handlers of different requests interleave between steps.   *)
(* Database writes are assumed to succeed.                                 *)
(***************************************************************************)
EXTENDS Integers, Sequences, FiniteSets, TLC

VARIABLES
    now,          \* Date.now(), in milliseconds
    gateways,     \* table gateways: id -> row
    developers,   \* table developers: id -> row
    sessions,     \* table sessions: sequence of rows, the id is the index
    topups,       \* table topups: sequence of rows, the id is the index
    requests,     \* table requests (the request log): sequence of rows
    invoiceCount, \* invoices the payment rail has issued so far
    settled,      \* payment hashes of the invoices the rail reports settled
    minted,       \* vouchers handed out in 402 responses (what clients hold)
    calls,        \* in-flight proxy handlers: slot -> local state
    checks,       \* in-flight top-up status handlers: slot -> local state
    payouts,      \* table payouts: sequence of rows, the id is the index
    payoutCalls,  \* in-flight manual payout handlers: slot -> local state
    cron,         \* the scheduled payout job: its local state
    page,         \* the script of a 402 payment page in a browser
    admin,        \* the in-flight gateway management handler: its local state
    nostr,        \* the challenge store and the in-flight sign-in handler
    limiter,      \* the rate limiter's map and what it answered last
    platformSweeps, \* table platformSweeps: sequence of rows, id = index
    sweepers,     \* the runs of the platform fee sweep: their local state
    arg,          \* input of the pure function under check
    res           \* its result, <<>> while not yet applied

\* the state of the payout routes and of the scheduled job, and of the
\* clients and routes beside the proxy
paying == <<payouts, payoutCalls, cron, page>>
guarding == <<nostr, limiter>>
sweeping == <<platformSweeps, sweepers>>
beside == <<admin, guarding, sweeping>>
other == <<paying, beside>>

vars == <<now, gateways, developers, sessions, topups, requests, invoiceCount,
          settled, minted, calls, checks, arg, res, other>>

ledger == <<developers, sessions, topups, requests>>

(***************************************************************************)
(* Bounds of the model                                                     *)
(***************************************************************************)
\* requests to the proxy and to the top-up status route in a run of
\* concurrent requests
MaxCalls == 2
MaxChecks == 2
\* manual payout requests in a run
MaxPayoutCalls == 1
\* challenges the server issues in a run of the sign-in routes
\* runs of the platform fee sweep that can overlap
MaxSweepRuns == 2
MaxChallenges == 2
\* steps of the clock in such a run
MaxElapses == 5
\* in a run of one request after the other: rows of the request log,
\* invoices of the rail and session rows past which no request starts
MaxLog == 3
MaxInvoices == 2
MaxSessions == 2
\* clock ticks in one run
MaxTicks == 2
MaxCost == 20
MaxRules == 2

(***************************************************************************)
(* Program constants                                                       *)
(***************************************************************************)
DEFAULT_PLATFORM_FEE_PERCENT == 2
VoucherTtlMs == 3600000

\* Clock granularity of the model: one voucher lifetime, so that a voucher
\* is presented when minted, at its expiry time or after it.
TickMs == VoucherTtlMs

\* the handler instances of a run
CallSlots == 1..MaxCalls
CheckSlots == 1..MaxChecks

(***************************************************************************)
(* Fee calculator                                                          *)
(***************************************************************************)
\* Math.floor in the place of Math.ceil
Ceil_floor(a, b) == a \div b

\* Math.ceil(a / b) for integers a >= 0, b > 0
Ceil(a, b) == IF a % b = 0 THEN a \div b ELSE (a \div b) + 1

\* both shares rounded up on their own
calculateFees_bothRoundedUp(costSats, platformFeePercent) ==
    [totalCost |-> costSats,
     devEarnings |-> Ceil(costSats * (100 - platformFeePercent), 100),
     platformFee |-> Ceil(costSats * platformFeePercent, 100)]

calculateFees(costSats, platformFeePercent) ==
    LET platformFee == Ceil(costSats * platformFeePercent, 100)
        devEarnings == costSats - platformFee
    IN  [totalCost |-> costSats, devEarnings |-> devEarnings, platformFee |-> platformFee]

\* The PLATFORM_FEE_PERCENT binding of the deployment; unset in the model.
PlatformFeeEnv == << >>

\* Strings of the binding are sequences of one-character strings.
Digits == <<"0", "1", "2", "3", "4", "5", "6", "7", "8", "9">>

isDigit(char) == \E i \in DOMAIN Digits : Digits[i] = char

digitValue(char) == (CHOOSE i \in DOMAIN Digits : Digits[i] = char) - 1

RECURSIVE leadingDigits(_)
\* the longest prefix of digits
leadingDigits(chars) ==
    IF chars = << >> \/ ~isDigit(Head(chars)) THEN << >>
    ELSE <<Head(chars)>> \o leadingDigits(Tail(chars))

RECURSIVE decimal(_)
decimal(digits) ==
    IF digits = << >> THEN 0
    ELSE decimal(SubSeq(digits, 1, Len(digits) - 1)) * 10
             + digitValue(digits[Len(digits)])

\* parseFloat on strings without a fraction or an exponent: the longest
\* numeric prefix as <<number>>, << >> for NaN
parseFloat(chars) ==
    LET negative == chars # << >> /\ Head(chars) = "-"
        digits == leadingDigits(IF negative THEN Tail(chars) ELSE chars)
    IN  IF digits = << >> THEN << >>
        ELSE <<IF negative THEN -decimal(digits) ELSE decimal(digits)>>

\* envValue is << >> when the binding is undefined, else <<string>>
getPlatformFeePercent(envValue) ==
    IF envValue = << >> \/ envValue[1] = << >> THEN DEFAULT_PLATFORM_FEE_PERCENT
    ELSE LET parsed == parseFloat(envValue[1])
         IN  IF parsed = << >> THEN DEFAULT_PLATFORM_FEE_PERCENT
             ELSE IF parsed[1] < 0 \/ parsed[1] > 100 THEN DEFAULT_PLATFORM_FEE_PERCENT
             ELSE parsed[1]

(***************************************************************************)
(* Route pricer                                                            *)
(***************************************************************************)
\* Paths and patterns are sequences of one-character strings.
\* The glob is rewritten into a regular expression: "**" becomes ".*",
\* a remaining "*" becomes "[^/]*", every other character is kept as it is,
\* so that "." stays the regular expression's any-character.
RECURSIVE globToRegex(_)
globToRegex(pattern) ==
    IF pattern = << >> THEN << >>
    ELSE IF Len(pattern) >= 2 /\ pattern[1] = "*" /\ pattern[2] = "*"
         THEN <<"ANY*">> \o globToRegex(SubSeq(pattern, 3, Len(pattern)))
    ELSE IF pattern[1] = "*"
         THEN <<"SEG*">> \o globToRegex(Tail(pattern))
    ELSE IF pattern[1] = "."
         THEN <<"DOT">> \o globToRegex(Tail(pattern))
    ELSE <<pattern[1]>> \o globToRegex(Tail(pattern))

\* regex.test(path) for the anchored expression ^...$
RECURSIVE regexTest(_, _)
regexTest(regex, s) ==
    IF regex = << >> THEN s = << >>
    ELSE LET h == Head(regex)
             t == Tail(regex)
         IN  IF h = "ANY*"
             THEN \E i \in 0..Len(s) : regexTest(t, SubSeq(s, i + 1, Len(s)))
             ELSE IF h = "SEG*"
             THEN \E i \in 0..Len(s) :
                     /\ \A j \in 1..i : s[j] # "/"
                     /\ regexTest(t, SubSeq(s, i + 1, Len(s)))
             ELSE IF h = "DOT"
             THEN s # << >> /\ regexTest(t, Tail(s))
             ELSE s # << >> /\ s[1] = h /\ regexTest(t, Tail(s))

matchPath(pattern, path) == regexTest(globToRegex(pattern), path)

\* the loop without its early return: the last matching rule wins
RECURSIVE firstMatch_lastWins(_, _, _)
firstMatch_lastWins(list, path, defaultPrice) ==
    IF list = << >> THEN defaultPrice
    ELSE IF matchPath(list[Len(list)].pattern, path) THEN list[Len(list)].price
    ELSE firstMatch_lastWins(SubSeq(list, 1, Len(list) - 1), path, defaultPrice)

\* rules: << >> for null, <<list>> for a parsed list
RECURSIVE firstMatch(_, _, _)
firstMatch(list, path, defaultPrice) ==
    IF list = << >> THEN defaultPrice
    ELSE IF matchPath(Head(list).pattern, path) THEN Head(list).price
    ELSE firstMatch(Tail(list), path, defaultPrice)

findMatchingRule(rules, path, defaultPrice) ==
    IF rules = << >> \/ Len(rules[1]) = 0 THEN defaultPrice
    ELSE firstMatch(rules[1], path, defaultPrice)

(***************************************************************************)
(* L402 voucher service                                                    *)
(***************************************************************************)
\* The secret the server signs with (JWT_SECRET) and one it does not know.
ServerSecret == "server-secret"
OtherSecret == "other-secret"

\* crypto.subtle.digest("SHA-256", .) as an injective function
Sha256(bytes) == <<"sha256", bytes>>

\* Hex strings are sequences of one-character strings.
HexDigits == <<"0", "1", "2", "3", "4", "5", "6", "7", "8", "9",
               "a", "b", "c", "d", "e", "f">>

isHex(char) == \E i \in DOMAIN HexDigits : HexDigits[i] = char

hexValue(char) == (CHOOSE i \in DOMAIN HexDigits : HexDigits[i] = char) - 1

\* parseInt(pair, 16) stored into a Uint8Array: the hex digits the pair
\* starts with, 0 when it starts with none
parseByte(pair) ==
    IF ~isHex(pair[1]) THEN 0
    ELSE IF Len(pair) < 2 \/ ~isHex(pair[2]) THEN hexValue(pair[1])
    ELSE 16 * hexValue(pair[1]) + hexValue(pair[2])

\* <<bytes>>, or << >> when new Uint8Array(hex.length / 2) throws
hexToBytes(hex) ==
    IF Len(hex) % 2 # 0 THEN << >>
    ELSE <<[i \in 1..(Len(hex) \div 2) |-> parseByte(SubSeq(hex, 2 * i - 1, 2 * i))]>>

\* an HMAC that leaves the price out of the message
signMacaroon_withoutPrice(data, secret) ==
    <<"hmac", secret, data.paymentHash, data.gatewayId, data.path, data.expires>>

\* HMAC-SHA256 over JSON.stringify(data): injective in the secret and in
\* every field of the data
signMacaroon(data, secret) ==
    <<"hmac", secret, data.paymentHash, data.gatewayId, data.path, data.price, data.expires>>

verifyMacaroonSignature(data, secret) ==
    data.signature =
        signMacaroon([paymentHash |-> data.paymentHash, gatewayId |-> data.gatewayId,
                      path |-> data.path, price |-> data.price,
                      expires |-> data.expires], secret)

\* btoa(JSON.stringify(fullMacaroon)); the challenge also carries the invoice
createL402Challenge(paymentHash, invoice, gatewayId, path, price, secret) ==
    LET macaroonData == [paymentHash |-> paymentHash, gatewayId |-> gatewayId,
                         path |-> path, price |-> price,
                         expires |-> now + VoucherTtlMs]
        fullMacaroon == [paymentHash |-> paymentHash, gatewayId |-> gatewayId,
                         path |-> path, price |-> price,
                         expires |-> now + VoucherTtlMs,
                         signature |-> signMacaroon(macaroonData, secret)]
    IN  [macaroon |-> <<"b64", fullMacaroon>>, invoice |-> invoice,
         paymentHash |-> paymentHash]

\* JSON.parse(atob(macaroon)): << >> when it throws
decodeMacaroon(macaroon) ==
    IF macaroon[1] = "b64" THEN <<macaroon[2]>> ELSE << >>

\* the verifier without its gateway comparison
verifyL402Token_anyGateway(token, gatewayId, path, secret) ==
    LET decoded == decodeMacaroon(token.macaroon)
    IN  IF decoded = << >>
        THEN [valid |-> FALSE, error |-> "Invalid macaroon format"]
        ELSE IF ~verifyMacaroonSignature(decoded[1], secret)
        THEN [valid |-> FALSE, error |-> "Invalid macaroon signature"]
        ELSE IF now > decoded[1].expires
        THEN [valid |-> FALSE, error |-> "Macaroon expired"]
        ELSE IF hexToBytes(token.preimage) = << >>
        THEN [valid |-> FALSE, error |-> "Invalid macaroon format"]
        ELSE IF Sha256(hexToBytes(token.preimage)[1]) # decoded[1].paymentHash
        THEN [valid |-> FALSE, error |-> "Invalid preimage"]
        ELSE [valid |-> TRUE, error |-> ""]

\* the verifier without its expiry comparison
verifyL402Token_noExpiry(token, gatewayId, path, secret) ==
    LET decoded == decodeMacaroon(token.macaroon)
    IN  IF decoded = << >>
        THEN [valid |-> FALSE, error |-> "Invalid macaroon format"]
        ELSE IF ~verifyMacaroonSignature(decoded[1], secret)
        THEN [valid |-> FALSE, error |-> "Invalid macaroon signature"]
        ELSE IF decoded[1].gatewayId # gatewayId
        THEN [valid |-> FALSE, error |-> "Macaroon not valid for this gateway"]
        ELSE IF hexToBytes(token.preimage) = << >>
        THEN [valid |-> FALSE, error |-> "Invalid macaroon format"]
        ELSE IF Sha256(hexToBytes(token.preimage)[1]) # decoded[1].paymentHash
        THEN [valid |-> FALSE, error |-> "Invalid preimage"]
        ELSE [valid |-> TRUE, error |-> ""]

\* a verifier that also consults the store: it honours the voucher of the
\* latest invoice only
verifyL402Token_latestInvoice(token, gatewayId, path, secret) ==
    LET decoded == decodeMacaroon(token.macaroon)
    IN  IF decoded = << >>
        THEN [valid |-> FALSE, error |-> "Invalid macaroon format"]
        ELSE IF ~verifyMacaroonSignature(decoded[1], secret)
        THEN [valid |-> FALSE, error |-> "Invalid macaroon signature"]
        ELSE IF now > decoded[1].expires
        THEN [valid |-> FALSE, error |-> "Macaroon expired"]
        ELSE IF decoded[1].gatewayId # gatewayId
        THEN [valid |-> FALSE, error |-> "Macaroon not valid for this gateway"]
        ELSE IF hexToBytes(token.preimage) = << >>
        THEN [valid |-> FALSE, error |-> "Invalid macaroon format"]
        ELSE IF Sha256(hexToBytes(token.preimage)[1]) # decoded[1].paymentHash
        THEN [valid |-> FALSE, error |-> "Invalid preimage"]
        ELSE IF decoded[1].paymentHash # Sha256(<<invoiceCount>>)
        THEN [valid |-> FALSE, error |-> "Superseded"]
        ELSE [valid |-> TRUE, error |-> ""]

verifyL402Token(token, gatewayId, path, secret) ==
    LET decoded == decodeMacaroon(token.macaroon)
    IN  IF decoded = << >>
        THEN [valid |-> FALSE, error |-> "Invalid macaroon format"]
        ELSE IF ~verifyMacaroonSignature(decoded[1], secret)
        THEN [valid |-> FALSE, error |-> "Invalid macaroon signature"]
        ELSE IF now > decoded[1].expires
        THEN [valid |-> FALSE, error |-> "Macaroon expired"]
        ELSE IF decoded[1].gatewayId # gatewayId
        THEN [valid |-> FALSE, error |-> "Macaroon not valid for this gateway"]
        ELSE IF hexToBytes(token.preimage) = << >>
        THEN [valid |-> FALSE, error |-> "Invalid macaroon format"]
        ELSE IF Sha256(hexToBytes(token.preimage)[1]) # decoded[1].paymentHash
        THEN [valid |-> FALSE, error |-> "Invalid preimage"]
        ELSE [valid |-> TRUE, error |-> ""]

(***************************************************************************)
(* The ledger at start-up and what clients can send                        *)
(***************************************************************************)
Slash == "/"

\* "/f/*"
FreePattern == <<Slash, "f", Slash, "*">>
\* "/f/a" and "/a"
FreePath == <<Slash, "f", Slash, "a">>
PaidPath == <<Slash, "a">>
\* "/p/*" and "/p/a": a route at twice the gateway's price
PremiumPattern == <<Slash, "p", Slash, "*">>
PremiumPath == <<Slash, "p", Slash, "a">>
RequestPaths == {FreePath, PaidPath}

GatewayRows ==
    [gA |-> [developerId |-> "d1", pricePerRequestSats |-> 10, isActive |-> TRUE,
             rules |-> << <<[pattern |-> FreePattern, price |-> 0],
                             [pattern |-> PremiumPattern, price |-> 20]>> >>],
     gB |-> [developerId |-> "d2", pricePerRequestSats |-> 5, isActive |-> TRUE,
             rules |-> << >>],
     gC |-> [developerId |-> "d1", pricePerRequestSats |-> 10, isActive |-> FALSE,
             rules |-> << >>]]

\* gX is the id of no gateway
RequestGatewayIds == {"gA", "gB", "gC", "gX"}

DeveloperRows ==
    [d \in {"d1", "d2"} |-> [balanceSats |-> 0, lightningAddress |-> << >>]]

\* generateSessionKey(): the key of the n-th session; n = 0 is a key of no session
SessionKey(n) == <<"sk", n>>

\* balance of the one session that exists at start-up
OpeningBalance == 10
OpeningBalanceSeq == 25

SessionRows(balance) == <<[sessionKey |-> SessionKey(1), balanceSats |-> balance]>>

\* << >> is a request without the X-Session-Key header and session_key parameter
RequestSessionKeys == {<< >>} \cup {<<SessionKey(n)>> : n \in 0..Len(sessions)}

\* the n-th invoice of the rail: its preimage is the byte n, in hex "0n", its
\* payment hash SHA-256 of it
Preimage(n) == <<"0", HexDigits[n + 1]>>
PaymentHash(n) == Sha256(<<n>>)
\* "00": the preimage of no invoice
BadPreimage == <<"0", "0">>

\* Vouchers a client can present: the minted ones, a minted one whose price
\* field was edited, one signed with a secret the server does not use, and
\* bytes that do not decode. The preimage of an invoice is known once it is paid.
tamperPrice(macaroon) ==
    <<"b64", [macaroon[2] EXCEPT !.price = 0]>>

resign(macaroon, secret) ==
    <<"b64", [macaroon[2] EXCEPT !.signature =
        signMacaroon([paymentHash |-> macaroon[2].paymentHash,
                      gatewayId |-> macaroon[2].gatewayId,
                      path |-> macaroon[2].path, price |-> macaroon[2].price,
                      expires |-> macaroon[2].expires], secret)]>>

ClientMacaroons ==
    minted \cup {tamperPrice(m) : m \in minted}
           \cup {resign(m, OtherSecret) : m \in minted}
           \cup {<<"garbage">>}

ClientPreimages ==
    {BadPreimage} \cup {Preimage(n) : n \in {i \in 1..invoiceCount : PaymentHash(i) \in settled}}

\* << >> is a request without an "Authorization: L402 ..." header
RequestAuths ==
    {<< >>} \cup {<<[macaroon |-> m, preimage |-> p]>> :
                     m \in ClientMacaroons, p \in ClientPreimages}

(***************************************************************************)
(* Handler state                                                           *)
(***************************************************************************)
\* Local state of a proxy handler. Optional values are << >> or <<value>>.
\* auth and key are the Authorization header and the session key as the
\* client sent them. status, xRequestCost, xBalanceRemaining, hasInvoice and
\* wwwAuthenticate are the response (the status code, the two headers,
\* whether an invoice and voucher are in the body, whether the challenge
\* header is set); writes counts the ledger rows the handler has inserted or
\* updated.
IdleCall ==
    [pc |-> "idle", gatewayId |-> "", path |-> << >>, isBrowser |-> FALSE,
     auth |-> << >>, key |-> << >>, wwwAuthenticate |-> FALSE,
     sessionKey |-> SessionKey(0), verification |-> << >>, gateway |-> << >>,
     costSats |-> 0, session |-> << >>, sessionId |-> 0, inv |-> << >>,
     developer |-> << >>, statusCode |-> 0, writes |-> 0,
     status |-> 0, xRequestCost |-> << >>, xBalanceRemaining |-> << >>,
     hasInvoice |-> FALSE]

\* The handler returns a response: it leaves the response, the gateway id
\* of the request, the price it resolved, the session it charged and its
\* count of writes.
Respond(call, status, xRequestCost, xBalanceRemaining, hasInvoice) ==
    [IdleCall EXCEPT !.pc = "done", !.status = status, !.xRequestCost = xRequestCost,
                     !.xBalanceRemaining = xBalanceRemaining,
                     !.hasInvoice = hasInvoice, !.costSats = call.costSats,
                     !.gatewayId = call.gatewayId,
                     !.sessionId = call.sessionId, !.writes = call.writes]

IdleCheck ==
    [pc |-> "idle", topupId |-> 0, session |-> << >>, sessionId |-> 0, topup |-> << >>,
     status |-> 0, topupStatus |-> "", newBalance |-> << >>]

RespondCheck(check, status, topupStatus, newBalance) ==
    [IdleCheck EXCEPT !.pc = "done", !.status = status, !.topupStatus = topupStatus,
                      !.newBalance = newBalance, !.topupId = check.topupId]

InFlight(handler) == handler.pc \notin {"idle", "done"}

Quiescent ==
    /\ \A c \in CallSlots : ~InFlight(calls[c])
    /\ \A k \in CheckSlots : ~InFlight(checks[k])

\* Requests take the slots in order.
NextCall(c) ==
    /\ calls[c].pc = "idle"
    /\ \A b \in CallSlots : b < c => calls[b].pc # "idle"

NextCheck(k) ==
    /\ checks[k].pc = "idle"
    /\ \A j \in CheckSlots : j < k => checks[j].pc # "idle"

(***************************************************************************)
(* Proxy handler: app.all("/:gatewayId/*")                                 *)
(***************************************************************************)
\* a check that the balance is positive, whatever the price
insufficientBalance_positiveOnly(session, costSats) == session.balanceSats <= 0

\* session[0].balanceSats < costSats
insufficientBalance(session, costSats) == session.balanceSats < costSats

\* the 402 flows replaced by letting the request through
paymentRequired_allow(call, session, sessionId) ==
    [call EXCEPT !.session = session, !.sessionId = sessionId, !.pc = "fetch"]

\* a browser gets a new session also when it has one
paymentRequired_newSession(call, session, sessionId) ==
    [call EXCEPT !.session = session, !.sessionId = sessionId,
                 !.pc = IF call.isBrowser THEN "newSession" ELSE "invoice"]

\* proxy.ts 1225-1229 and 1342-1345: which 402 flow runs
paymentRequired(call, session, sessionId) ==
    [call EXCEPT !.session = session, !.sessionId = sessionId,
                 !.pc = IF call.isBrowser /\ session = << >>
                        THEN "newSession" ELSE "invoice"]

\* an inactive gateway is served like an active one
gatewayInactive_never(gateway) == FALSE

\* proxy.ts 1181: `if (!gateway[0].isActive)`
gatewayInactive(gateway) == ~gateway[1].isActive

\* a free route is treated like a priced one
freeRoute_never(costSats) == FALSE

\* proxy.ts 1220: `if (costSats === 0)`
freeRoute(costSats) == costSats = 0

\* From the first line of the handler up to the session lookup: gateway
\* lookup, pricing, the L402 header, the free route, the missing session key.
\* gatewayIds and paths are the gateways and paths the clients of the run
\* call, auths what they put in the Authorization header, browsers whether
\* they accept HTML.
ResolveGateway(c, gatewayIds, paths, auths, browsers) ==
    /\ NextCall(c)
    /\ \E gatewayId \in gatewayIds, path \in paths,
          auth \in auths, sessionKey \in RequestSessionKeys,
          isBrowser \in browsers :
        LET gateway == IF gatewayId \in DOMAIN gateways
                       THEN <<gateways[gatewayId]>> ELSE << >>
            costSats == findMatchingRule(gateway[1].rules, path,
                                         gateway[1].pricePerRequestSats)
            verification == IF auth = << >> THEN << >>
                            ELSE <<verifyL402Token(auth[1], gatewayId, path, ServerSecret)>>
            started == [IdleCall EXCEPT !.gatewayId = gatewayId, !.path = path,
                                        !.isBrowser = isBrowser, !.auth = auth,
                                        !.key = sessionKey]
            priced == [started EXCEPT !.gateway = gateway, !.costSats = costSats,
                                      !.verification = verification]
        IN  calls' = [calls EXCEPT ![c] =
                IF gateway = << >>
                THEN Respond(started, 404, << >>, << >>, FALSE)
                ELSE IF gatewayInactive(gateway)
                THEN Respond(started, 503, << >>, << >>, FALSE)
                ELSE IF verification # << >> /\ verification[1].valid
                THEN [priced EXCEPT !.pc = "fetch"]
                ELSE IF freeRoute(costSats)
                THEN [priced EXCEPT !.pc = "fetch", !.costSats = 0]
                ELSE IF sessionKey = << >>
                THEN paymentRequired(priced, << >>, 0)
                ELSE [priced EXCEPT !.pc = "session", !.sessionKey = sessionKey[1]]]
    /\ UNCHANGED <<now, gateways, ledger, invoiceCount, settled, minted, checks, arg, res, other>>

\* proxy.ts 1327-1425: session lookup and balance check
LookupSession(c) ==
    /\ calls[c].pc = "session"
    /\ LET call == calls[c]
           found == {n \in 1..Len(sessions) : sessions[n].sessionKey = call.sessionKey}
           id == CHOOSE n \in found : TRUE
       IN  calls' = [calls EXCEPT ![c] =
               IF found = {}
               THEN Respond(call, 401, << >>, << >>, FALSE)
               ELSE IF insufficientBalance(sessions[id], call.costSats)
               THEN paymentRequired(call, <<sessions[id]>>, id)
               ELSE [call EXCEPT !.pc = "fetch", !.session = <<sessions[id]>>,
                                 !.sessionId = id]]
    /\ UNCHANGED <<now, gateways, ledger, invoiceCount, settled, minted, checks, arg, res, other>>

\* proxy.ts 1236-1243: the browser flow without a session key creates a session
InsertSession(c) ==
    /\ calls[c].pc = "newSession"
    /\ sessions' = Append(sessions, [sessionKey |-> SessionKey(Len(sessions) + 1),
                                     balanceSats |-> 0])
    /\ calls' = [calls EXCEPT ![c].pc = "invoice",
                              ![c].sessionId = Len(sessions) + 1,
                              ![c].sessionKey = SessionKey(Len(sessions) + 1),
                              ![c].writes = @ + 1]
    /\ UNCHANGED <<now, gateways, developers, topups, requests, invoiceCount, settled,
                   minted, checks, arg, res, other>>

\* proxy.ts 1320-1322: c.header("WWW-Authenticate", ...) in the flow without
\* a session key; the flow of a session with too low a balance (1387-1421)
\* returns c.json(responseData, 402) and sets no header
challengeHeader(session) == session = << >>

\* alby.createInvoice returns the next invoice of the rail. In the browser
\* flows a top-up row follows; for API clients the voucher is minted and the
\* 402 goes out with it.
CreateInvoice(c) ==
    /\ calls[c].pc = "invoice"
    /\ LET call == calls[c]
           paymentHash == PaymentHash(invoiceCount + 1)
           l402Challenge == createL402Challenge(paymentHash, invoiceCount + 1,
                                call.gatewayId, call.path, call.costSats, ServerSecret)
       IN  /\ invoiceCount' = invoiceCount + 1
           /\ IF call.isBrowser
              THEN /\ calls' = [calls EXCEPT ![c].pc = "topup", ![c].inv = <<paymentHash>>]
                   /\ UNCHANGED minted
              ELSE /\ calls' = [calls EXCEPT ![c] =
                          [Respond(call, 402, << >>, << >>, TRUE)
                              EXCEPT !.wwwAuthenticate = challengeHeader(call.session)]]
                   /\ minted' = minted \cup {l402Challenge.macaroon}
    /\ UNCHANGED <<now, gateways, ledger, settled, checks, arg, res, other>>

\* alby.createInvoice throws and nothing catches it: the framework answers 500
CreateInvoiceFails_500(c) ==
    /\ calls[c].pc = "invoice"
    /\ calls' = [calls EXCEPT ![c] = Respond(calls[c], 500, << >>, << >>, FALSE)]
    /\ UNCHANGED <<now, gateways, ledger, invoiceCount, settled, minted, checks, arg, res, other>>

\* alby.createInvoice throws: the catch block logs, the 402 goes out without
\* an invoice
CreateInvoiceFails(c) ==
    /\ calls[c].pc = "invoice"
    /\ calls' = [calls EXCEPT ![c] = Respond(calls[c], 402, << >>, << >>, FALSE)]
    /\ UNCHANGED <<now, gateways, ledger, invoiceCount, settled, minted, checks, arg, res, other>>

\* proxy.ts 1249-1255 and 1354-1360: the pending top-up of the browser flows
InsertTopup(c) ==
    /\ calls[c].pc = "topup"
    /\ LET call == calls[c]
       IN  /\ topups' = Append(topups, [sessionId |-> call.sessionId,
                                        amountSats |-> call.costSats,
                                        paymentHash |-> call.inv[1],
                                        status |-> "pending", paidAt |-> << >>])
           /\ calls' = [calls EXCEPT ![c] =
                  Respond([call EXCEPT !.writes = @ + 1], 402, << >>, << >>, TRUE)]
    /\ UNCHANGED <<now, gateways, developers, sessions, requests, invoiceCount, settled,
                   minted, checks, arg, res, other>>

(***************************************************************************)
(* forwardRequest                                                          *)
(***************************************************************************)
\* The status codes an upstream answers with when the fetch does not throw.
UpstreamStatuses == {200, 500}

\* the catch block without its return
settles_noReturn(threw, session, costSats) == session # << >> /\ costSats > 0

\* a settlement is attempted on requests that have no session
settles_withoutSession(threw, session, costSats) == ~threw /\ costSats > 0

\* a proxy that never charges
settles_never(threw, session, costSats) == FALSE

\* The catch block returns the 502; past it, `if (session && costSats > 0)`.
settles(threw, session, costSats) == ~threw /\ session # << >> /\ costSats > 0

\* the session charged the developer's share instead of the price
debitedBalance_devShare(session, costSats) ==
    session.balanceSats
        - calculateFees(costSats, getPlatformFeePercent(PlatformFeeEnv)).devEarnings

\* session.balanceSats - costSats, from the handler's copy of the session row
debitedBalance(session, costSats) == session.balanceSats - costSats

\* developer[0].balanceSats + fees.devEarnings, from the row just selected
creditedBalance(developer, fees) == developer.balanceSats + fees.devEarnings

\* the header tells the balance the handler read, before the price came off
balanceRemainingHeader_beforeDebit(session, costSats) ==
    IF session = << >> THEN << >> ELSE <<session[1].balanceSats>>

\* the X-Balance-Remaining header of a forwarded request
balanceRemainingHeader(session, costSats) ==
    IF session = << >> THEN << >> ELSE <<session[1].balanceSats - costSats>>

Forwarded(call, status) ==
    Respond(call, status, <<call.costSats>>,
            balanceRemainingHeader(call.session, call.costSats), FALSE)

\* proxy.ts 1462-1484: the upstream fetch; statuses is what the upstreams of
\* the run answer with
Fetch(c, statuses) ==
    /\ calls[c].pc = "fetch"
    /\ \E threw \in BOOLEAN, upstream \in statuses :
        LET call == calls[c]
            statusCode == IF threw THEN 502 ELSE upstream
        IN  calls' = [calls EXCEPT ![c] =
                IF settles(threw, call.session, call.costSats)
                THEN [call EXCEPT !.pc = "debit", !.statusCode = statusCode]
                ELSE IF threw
                THEN Respond(call, 502, << >>, << >>, FALSE)
                ELSE Forwarded([call EXCEPT !.statusCode = statusCode], statusCode)]
    /\ UNCHANGED <<now, gateways, ledger, invoiceCount, settled, minted, checks, arg, res, other>>

\* proxy.ts 1488-1495
Debit(c) ==
    /\ calls[c].pc = "debit"
    /\ LET call == calls[c]
       IN  sessions' = [sessions EXCEPT ![call.sessionId].balanceSats =
                            debitedBalance(call.session[1], call.costSats)]
    /\ calls' = [calls EXCEPT ![c].pc = "selectDeveloper", ![c].writes = @ + 1]
    /\ UNCHANGED <<now, gateways, developers, topups, requests, invoiceCount, settled,
                   minted, checks, arg, res, other>>

\* proxy.ts 1497-1502
SelectDeveloper(c) ==
    /\ calls[c].pc = "selectDeveloper"
    /\ LET id == calls[c].gateway[1].developerId
       IN  calls' = [calls EXCEPT ![c].pc = "credit",
                                  ![c].developer = IF id \in DOMAIN developers
                                                   THEN <<developers[id]>> ELSE << >>]
    /\ UNCHANGED <<now, gateways, ledger, invoiceCount, settled, minted, checks, arg, res, other>>

\* proxy.ts 1504-1512
CreditDeveloper(c) ==
    /\ calls[c].pc = "credit"
    /\ LET call == calls[c]
           fees == calculateFees(call.costSats, getPlatformFeePercent(PlatformFeeEnv))
       IN  IF call.developer # << >>
           THEN /\ developers' = [developers EXCEPT
                       ![call.gateway[1].developerId].balanceSats =
                           creditedBalance(call.developer[1], fees)]
                /\ calls' = [calls EXCEPT ![c].pc = "log", ![c].writes = @ + 1]
           ELSE /\ UNCHANGED developers
                /\ calls' = [calls EXCEPT ![c].pc = "log"]
    /\ UNCHANGED <<now, gateways, sessions, topups, requests, invoiceCount, settled,
                   minted, checks, arg, res, other>>

\* proxy.ts 1514-1539: the log row, then the response. requests.gatewayId
\* references gateways.id (schema.ts 81-83): the insert of a row for a
\* gateway that is gone throws, and the framework answers 500.
LogRequest(c) ==
    /\ calls[c].pc = "log"
    /\ LET call == calls[c]
           fees == calculateFees(call.costSats, getPlatformFeePercent(PlatformFeeEnv))
       IN  IF call.gatewayId \notin DOMAIN gateways
           THEN /\ calls' = [calls EXCEPT ![c] = Respond(call, 500, << >>, << >>, FALSE)]
                /\ UNCHANGED requests
           ELSE
           /\ requests' = Append(requests,
                  [gatewayId |-> call.gatewayId, sessionId |-> call.sessionId,
                   costSats |-> fees.totalCost, devEarningsSats |-> fees.devEarnings,
                   platformFeeSats |-> fees.platformFee, path |-> call.path,
                   statusCode |-> call.statusCode])
           /\ calls' = [calls EXCEPT ![c] =
                  Forwarded([call EXCEPT !.writes = @ + 1], call.statusCode)]
    /\ UNCHANGED <<now, gateways, developers, sessions, topups, invoiceCount, settled,
                   minted, checks, arg, res, other>>

(***************************************************************************)
(* Top-up status handler: GET /topup/{id}                                  *)
(***************************************************************************)
\* the ids a client asks about: those of the rows and one of no row
RequestTopupIds == 1..(Len(topups) + 1)

\* session.balanceSats + topup[0].amountSats, from the handler's copies
toppedUpBalance(session, topup) == session.balanceSats + topup.amountSats

\* sessions.ts 236-242: authenticateSession
AuthenticateSession(k) ==
    /\ NextCheck(k)
    /\ \E sessionKey \in RequestSessionKeys, topupId \in RequestTopupIds :
        LET found == IF sessionKey = << >> THEN {}
                     ELSE {n \in 1..Len(sessions) : sessions[n].sessionKey = sessionKey[1]}
            id == CHOOSE n \in found : TRUE
            started == [IdleCheck EXCEPT !.topupId = topupId]
        IN  checks' = [checks EXCEPT ![k] =
                IF found = {}
                THEN RespondCheck(started, 401, "", << >>)
                ELSE [started EXCEPT !.pc = "topup", !.session = <<sessions[id]>>,
                                     !.sessionId = id]]
    /\ UNCHANGED <<now, gateways, ledger, invoiceCount, settled, minted, calls, arg, res, other>>

\* the status handler without the comparison of the top-up's session with the
\* authenticated one
LookupTopup_anyOwner(k) ==
    /\ checks[k].pc = "topup"
    /\ LET check == checks[k]
           topup == IF check.topupId \in 1..Len(topups)
                    THEN <<topups[check.topupId]>> ELSE << >>
       IN  checks' = [checks EXCEPT ![k] =
               IF topup = << >>
               THEN RespondCheck(check, 404, "", << >>)
               ELSE IF topup[1].status = "pending"
               THEN [check EXCEPT !.pc = "rail", !.topup = topup]
               ELSE RespondCheck([check EXCEPT !.topup = topup], 200,
                                 topup[1].status, << >>)]
    /\ UNCHANGED <<now, gateways, ledger, invoiceCount, settled, minted, calls, arg, res, other>>

\* sessions.ts 244-265: the top-up row, its owner and its status
LookupTopup(k) ==
    /\ checks[k].pc = "topup"
    /\ LET check == checks[k]
           topup == IF check.topupId \in 1..Len(topups)
                    THEN <<topups[check.topupId]>> ELSE << >>
       IN  checks' = [checks EXCEPT ![k] =
               IF topup = << >> \/ topup[1].sessionId # check.sessionId
               THEN RespondCheck(check, 404, "", << >>)
               ELSE IF topup[1].status = "pending"
               THEN [check EXCEPT !.pc = "rail", !.topup = topup]
               ELSE RespondCheck([check EXCEPT !.topup = topup], 200,
                                 topup[1].status, << >>)]
    /\ UNCHANGED <<now, gateways, ledger, invoiceCount, settled, minted, calls, arg, res, other>>

\* sessions.ts 268-271 and 298-308: alby.getInvoice; a throw is caught and
\* the stored status is returned
GetInvoice(k) ==
    /\ checks[k].pc = "rail"
    /\ \E threw \in BOOLEAN :
        LET check == checks[k]
        IN  checks' = [checks EXCEPT ![k] =
                IF ~threw /\ check.topup[1].paymentHash \in settled
                THEN [check EXCEPT !.pc = "markPaid"]
                ELSE RespondCheck(check, 200, check.topup[1].status, << >>)]
    /\ UNCHANGED <<now, gateways, ledger, invoiceCount, settled, minted, calls, arg, res, other>>

\* sessions.ts 272-279
MarkPaid(k) ==
    /\ checks[k].pc = "markPaid"
    /\ topups' = [topups EXCEPT ![checks[k].topupId].status = "paid",
                                ![checks[k].topupId].paidAt = <<now>>]
    /\ checks' = [checks EXCEPT ![k].pc = "credit"]
    /\ UNCHANGED <<now, gateways, developers, sessions, requests, invoiceCount, settled,
                   minted, calls, arg, res, other>>

\* sessions.ts 281-296
CreditSession(k) ==
    /\ checks[k].pc = "credit"
    /\ LET check == checks[k]
           newBalance == toppedUpBalance(check.session[1], check.topup[1])
       IN  /\ sessions' = [sessions EXCEPT ![check.sessionId].balanceSats = newBalance]
           /\ checks' = [checks EXCEPT ![k] =
                  RespondCheck(check, 200, "paid", <<newBalance>>)]
    /\ UNCHANGED <<now, gateways, developers, topups, requests, invoiceCount, settled,
                   minted, calls, arg, res, other>>

(***************************************************************************)
(* The response is out and the handler instance is gone                    *)
(***************************************************************************)
Close(c) ==
    /\ calls[c].pc = "done"
    /\ calls' = [calls EXCEPT ![c] = IdleCall]
    /\ UNCHANGED <<now, gateways, ledger, invoiceCount, settled, minted, checks, arg, res, other>>

CloseCheck(k) ==
    /\ checks[k].pc = "done"
    /\ checks' = [checks EXCEPT ![k] = IdleCheck]
    /\ UNCHANGED <<now, gateways, ledger, invoiceCount, settled, minted, calls, arg, res, other>>

(***************************************************************************)
(* Environment: the payment rail and the clock                             *)
(***************************************************************************)
\* Somebody pays an invoice the rail has issued.
PayInvoice ==
    /\ \E n \in 1..invoiceCount :
        /\ PaymentHash(n) \notin settled
        /\ settled' = settled \cup {PaymentHash(n)}
    /\ UNCHANGED <<now, gateways, ledger, invoiceCount, minted, calls, checks, arg, res, other>>

Tick ==
    /\ now < MaxTicks * TickMs
    /\ now' = now + TickMs
    /\ UNCHANGED <<gateways, ledger, invoiceCount, settled, minted, calls, checks, arg, res, other>>

(***************************************************************************)
(* Manual payout: POST /payout                                             *)
(***************************************************************************)
PayoutSlots == 1..MaxPayoutCalls

IdlePayout ==
    [pc |-> "idle", developerId |-> "", developer |-> << >>, amountSats |-> 0,
     payoutId |-> 0, status |-> 0]

RespondPayout(payout, status) ==
    [IdlePayout EXCEPT !.pc = "done", !.status = status,
                       !.developerId = payout.developerId,
                       !.amountSats = payout.amountSats,
                       !.payoutId = payout.payoutId]

NextPayout(p) ==
    /\ payoutCalls[p].pc = "idle"
    /\ \A q \in PayoutSlots : q < p => payoutCalls[q].pc # "idle"

\* `!developer.lightningAddress`: NULL and the empty string are no address
noAddress(row) == row.lightningAddress = << >> \/ row.lightningAddress = <<"">>

\* developers.ts 838-845: the refund writes the balance the handler read
\* when it authenticated the developer
refundedBalance(developer, stored, amountSats) == developer.balanceSats

\* the balance check is left out
overdraws_never(amountSats, developer) == FALSE

\* developers.ts 785: `amountSats > developer.balanceSats`
overdraws(amountSats, developer) == amountSats > developer.balanceSats

\* developers.ts 766-787: authenticateDeveloper reads the row of the token's
\* developer; then the address and balance checks on that copy
AuthenticateDeveloper(p, developerIds, amounts) ==
    /\ NextPayout(p)
    /\ \E developerId \in developerIds, amountSats \in amounts :
        LET started == [IdlePayout EXCEPT !.developerId = developerId,
                                          !.amountSats = amountSats]
        IN  payoutCalls' = [payoutCalls EXCEPT ![p] =
                IF developerId \notin DOMAIN developers
                THEN RespondPayout(started, 401)
                ELSE IF noAddress(developers[developerId])
                THEN RespondPayout(started, 400)
                ELSE IF overdraws(amountSats, developers[developerId])
                THEN RespondPayout(started, 400)
                ELSE [started EXCEPT !.pc = "deduct",
                                     !.developer = <<developers[developerId]>>]]
    /\ UNCHANGED <<now, gateways, ledger, invoiceCount, settled, minted, calls, checks,
                   payouts, cron, page, arg, res, beside>>

\* developers.ts 793-800
DeductPayout(p) ==
    /\ payoutCalls[p].pc = "deduct"
    /\ LET payout == payoutCalls[p]
       IN  developers' = [developers EXCEPT ![payout.developerId].balanceSats =
                              payout.developer[1].balanceSats - payout.amountSats]
    /\ payoutCalls' = [payoutCalls EXCEPT ![p].pc = "record"]
    /\ UNCHANGED <<now, gateways, sessions, topups, requests, invoiceCount, settled,
                   minted, calls, checks, payouts, cron, page, arg, res, beside>>

\* developers.ts 802-809
InsertPayout(p) ==
    /\ payoutCalls[p].pc = "record"
    /\ LET payout == payoutCalls[p]
       IN  payouts' = Append(payouts,
               [developerId |-> payout.developerId, amountSats |-> payout.amountSats,
                status |-> "pending", isAutoPayout |-> FALSE])
    /\ payoutCalls' = [payoutCalls EXCEPT ![p].pc = "pay",
                                          ![p].payoutId = Len(payouts) + 1]
    /\ UNCHANGED <<now, gateways, ledger, invoiceCount, settled, minted, calls, checks,
                   cron, page, arg, res, beside>>

\* developers.ts 811-816: alby.payToLightningAddress returns or throws
PayToLightningAddress(p) ==
    /\ payoutCalls[p].pc = "pay"
    /\ \E threw \in BOOLEAN :
        payoutCalls' = [payoutCalls EXCEPT ![p].pc = IF threw THEN "refund" ELSE "complete"]
    /\ UNCHANGED <<now, gateways, ledger, invoiceCount, settled, minted, calls, checks,
                   payouts, cron, page, arg, res, beside>>

\* developers.ts 818-832
MarkCompleted(p) ==
    /\ payoutCalls[p].pc = "complete"
    /\ payouts' = [payouts EXCEPT ![payoutCalls[p].payoutId].status = "completed"]
    /\ payoutCalls' = [payoutCalls EXCEPT ![p] = RespondPayout(payoutCalls[p], 200)]
    /\ UNCHANGED <<now, gateways, ledger, invoiceCount, settled, minted, calls, checks,
                   cron, page, arg, res, beside>>

\* developers.ts 833-841: the catch block writes the balance back
RefundPayout(p) ==
    /\ payoutCalls[p].pc = "refund"
    /\ LET payout == payoutCalls[p]
       IN  developers' = [developers EXCEPT ![payout.developerId].balanceSats =
                              refundedBalance(payout.developer[1],
                                              developers[payout.developerId],
                                              payout.amountSats)]
    /\ payoutCalls' = [payoutCalls EXCEPT ![p].pc = "markFailed"]
    /\ UNCHANGED <<now, gateways, sessions, topups, requests, invoiceCount, settled,
                   minted, calls, checks, payouts, cron, page, arg, res, beside>>

\* developers.ts 843-853
MarkFailed(p) ==
    /\ payoutCalls[p].pc = "markFailed"
    /\ payouts' = [payouts EXCEPT ![payoutCalls[p].payoutId].status = "failed"]
    /\ payoutCalls' = [payoutCalls EXCEPT ![p] = RespondPayout(payoutCalls[p], 500)]
    /\ UNCHANGED <<now, gateways, ledger, invoiceCount, settled, minted, calls, checks,
                   cron, page, arg, res, beside>>

PayoutStep(p) ==
    \/ DeductPayout(p)
    \/ InsertPayout(p)
    \/ PayToLightningAddress(p)
    \/ MarkCompleted(p)
    \/ RefundPayout(p)
    \/ MarkFailed(p)

(***************************************************************************)
(* Scheduled job: processDevPayouts                                        *)
(***************************************************************************)
MIN_PAYOUT_SATS == 100

\* eligibleDevs are the rows the query returned, index the position of the
\* loop in them, amountSats and payoutId the locals of the iteration
IdleCron ==
    [pc |-> "idle", eligibleDevs |-> << >>, index |-> 0, amountSats |-> 0, payoutId |-> 0]

\* the order in which the query returns the rows
DeveloperOrder == <<"d1", "d2", "d3", "d4">>

\* a job that pays out whatever the balance is
eligible_anyBalance(row) == row.lightningAddress # << >>

\* part_003 115: balanceSats >= MIN_PAYOUT_SATS AND lightningAddress IS NOT NULL
eligible(row) == row.balanceSats >= MIN_PAYOUT_SATS /\ row.lightningAddress # << >>

\* `if (!dev.lightningAddress) continue`: the next row of the list, after
\* position index, that the loop works on; Len + 1 when there is none
RECURSIVE nextDev(_, _)
nextDev(list, index) ==
    IF index + 1 > Len(list) THEN Len(list) + 1
    ELSE IF noAddress(list[index + 1]) THEN nextDev(list, index + 1)
    ELSE index + 1

\* the loop moves on to the next row, or the job ends
advance(job) ==
    LET next == nextDev(job.eligibleDevs, job.index)
    IN  IF next > Len(job.eligibleDevs)
        THEN [job EXCEPT !.pc = "done", !.index = next, !.amountSats = 0, !.payoutId = 0]
        ELSE [job EXCEPT !.pc = "deduct", !.index = next, !.payoutId = 0,
                         !.amountSats = job.eligibleDevs[next].balanceSats]

\* part_003 110-118: the query
SelectEligible ==
    /\ cron.pc = "idle"
    /\ LET ids == SelectSeq(DeveloperOrder,
                     LAMBDA d : d \in DOMAIN developers /\ eligible(developers[d]))
           rows == [n \in 1..Len(ids) |->
                       [id |-> ids[n], balanceSats |-> developers[ids[n]].balanceSats,
                        lightningAddress |-> developers[ids[n]].lightningAddress]]
       IN  cron' = advance([IdleCron EXCEPT !.eligibleDevs = rows])
    /\ UNCHANGED <<now, gateways, ledger, invoiceCount, settled, minted, calls, checks,
                   payouts, payoutCalls, page, arg, res, beside>>

\* part_003 130-137: the balance is set to 0
CronDeduct ==
    /\ cron.pc = "deduct"
    /\ developers' = [developers EXCEPT
                         ![cron.eligibleDevs[cron.index].id].balanceSats = 0]
    /\ cron' = [cron EXCEPT !.pc = "record"]
    /\ UNCHANGED <<now, gateways, sessions, topups, requests, invoiceCount, settled,
                   minted, calls, checks, payouts, payoutCalls, page, arg, res, beside>>

\* part_003 139-147
CronInsert ==
    /\ cron.pc = "record"
    /\ payouts' = Append(payouts,
           [developerId |-> cron.eligibleDevs[cron.index].id,
            amountSats |-> cron.amountSats, status |-> "pending", isAutoPayout |-> TRUE])
    /\ cron' = [cron EXCEPT !.pc = "pay", !.payoutId = Len(payouts) + 1]
    /\ UNCHANGED <<now, gateways, ledger, invoiceCount, settled, minted, calls, checks,
                   payoutCalls, page, arg, res, beside>>

\* part_003 149-154: alby.payToLightningAddress returns or throws
CronPay ==
    /\ cron.pc = "pay"
    /\ \E threw \in BOOLEAN :
        cron' = [cron EXCEPT !.pc = IF threw THEN "refund" ELSE "complete"]
    /\ UNCHANGED <<now, gateways, ledger, invoiceCount, settled, minted, calls, checks,
                   payouts, payoutCalls, page, arg, res, beside>>

\* part_003 156-164
CronComplete ==
    /\ cron.pc = "complete"
    /\ payouts' = [payouts EXCEPT ![cron.payoutId].status = "completed"]
    /\ cron' = advance(cron)
    /\ UNCHANGED <<now, gateways, ledger, invoiceCount, settled, minted, calls, checks,
                   payoutCalls, page, arg, res, beside>>

\* part_003 166-174: the catch block writes the amount as the balance
CronRefund ==
    /\ cron.pc = "refund"
    /\ developers' = [developers EXCEPT
                         ![cron.eligibleDevs[cron.index].id].balanceSats = cron.amountSats]
    /\ cron' = [cron EXCEPT !.pc = "markFailed"]
    /\ UNCHANGED <<now, gateways, sessions, topups, requests, invoiceCount, settled,
                   minted, calls, checks, payouts, payoutCalls, page, arg, res, beside>>

\* part_003 176-181
CronMarkFailed ==
    /\ cron.pc = "markFailed"
    /\ payouts' = [payouts EXCEPT ![cron.payoutId].status = "failed"]
    /\ cron' = advance(cron)
    /\ UNCHANGED <<now, gateways, ledger, invoiceCount, settled, minted, calls, checks,
                   payoutCalls, page, arg, res, beside>>

CronStep ==
    \/ CronDeduct
    \/ CronInsert
    \/ CronPay
    \/ CronComplete
    \/ CronRefund
    \/ CronMarkFailed

(***************************************************************************)
(* Gateway management: PATCH and DELETE /gateways/{id}                     *)
(***************************************************************************)
\* op is the route; developer and gateway are the rows the handler read
IdleAdmin ==
    [pc |-> "idle", op |-> "", developerId |-> "", gatewayId |-> "", isActive |-> << >>,
     status |-> 0]

RespondAdmin(call, status) ==
    [IdleAdmin EXCEPT !.pc = "done", !.status = status, !.op = call.op,
                      !.gatewayId = call.gatewayId]

\* the database deletes whatever row it is asked to
referenced_never(gatewayId) == FALSE

\* schema.ts 81-83: requests.gatewayId references gateways.id; the database
\* refuses to delete a gateway row that a request row references
referenced(gatewayId) == \E r \in 1..Len(requests) : requests[r].gatewayId = gatewayId

\* gateways.ts 145-151 and 199-205: authenticateDeveloper
AuthenticateOwner(ops, developerIds, gatewayIds) ==
    /\ admin.pc = "idle"
    /\ \E op \in ops, developerId \in developerIds, gatewayId \in gatewayIds,
          isActive \in {<< >>, <<TRUE>>, <<FALSE>>} :
        LET started == [IdleAdmin EXCEPT !.op = op, !.developerId = developerId,
                                         !.gatewayId = gatewayId,
                                         !.isActive = IF op = "patch" THEN isActive
                                                      ELSE << >>]
        IN  admin' = IF developerId \notin DOMAIN developers
                     THEN RespondAdmin(started, 401)
                     ELSE [started EXCEPT !.pc = "select"]
    /\ UNCHANGED <<now, gateways, ledger, invoiceCount, settled, minted, calls, checks,
                   paying, guarding, sweeping, arg, res>>

\* gateways.ts 155-165 and 207-217: the gateway of that id and that owner
SelectOwnGateway ==
    /\ admin.pc = "select"
    /\ admin' = IF /\ admin.gatewayId \in DOMAIN gateways
                   /\ gateways[admin.gatewayId].developerId = admin.developerId
                THEN [admin EXCEPT !.pc = admin.op]
                ELSE RespondAdmin(admin, 404)
    /\ UNCHANGED <<now, gateways, ledger, invoiceCount, settled, minted, calls, checks,
                   paying, guarding, sweeping, arg, res>>

\* gateways.ts 176-192: the update; of the fields of the body the model
\* carries isActive
UpdateGateway ==
    /\ admin.pc = "patch"
    /\ gateways' = IF admin.gatewayId \in DOMAIN gateways /\ admin.isActive # << >>
                   THEN [gateways EXCEPT ![admin.gatewayId].isActive = admin.isActive[1]]
                   ELSE gateways
    /\ admin' = RespondAdmin(admin, 200)
    /\ UNCHANGED <<now, ledger, invoiceCount, settled, minted, calls, checks,
                   paying, guarding, sweeping, arg, res>>

\* gateways.ts 219-224: the delete; when the database refuses it the
\* handler throws and the framework answers 500
DeleteGateway ==
    /\ admin.pc = "delete"
    /\ IF referenced(admin.gatewayId)
       THEN /\ admin' = RespondAdmin(admin, 500)
            /\ UNCHANGED gateways
       ELSE /\ admin' = RespondAdmin(admin, 200)
            /\ gateways' = [g \in DOMAIN gateways \ {admin.gatewayId} |-> gateways[g]]
    /\ UNCHANGED <<now, ledger, invoiceCount, settled, minted, calls, checks,
                   paying, guarding, sweeping, arg, res>>

CloseAdmin ==
    /\ admin.pc = "done"
    /\ admin' = IdleAdmin
    /\ UNCHANGED <<now, gateways, ledger, invoiceCount, settled, minted, calls, checks,
                   paying, guarding, sweeping, arg, res>>

(***************************************************************************)
(* The script of the 402 payment page: checkPayment                       *)
(***************************************************************************)
maxAttempts == 120

\* no payment page is open
NoPage == [pc |-> "closed", attempts |-> 0]

\* the script has started: checkPayment() is called when the page loads
LoadedPage == [pc |-> "check", attempts |-> 0]

\* what a poll of the top-up status comes back with: the status of the
\* top-up, or an exception from fetch or res.json()
PollOutcomes == {"paid", "pending", "threw"}

\* the counter is left as it is
attemptsAfter_same(attempts) == attempts

\* proxy.ts 94: `attempts++`
attemptsAfter(attempts) == attempts + 1

\* proxy.ts 74-100: one run of checkPayment
CheckPayment ==
    /\ page.pc = "check"
    /\ \E outcome \in PollOutcomes :
        page' = IF outcome = "paid"
                THEN [page EXCEPT !.pc = "redirect"]
                ELSE IF attemptsAfter(page.attempts) < maxAttempts
                THEN [page EXCEPT !.pc = "wait", !.attempts = attemptsAfter(page.attempts)]
                ELSE [page EXCEPT !.pc = "timedOut",
                                  !.attempts = attemptsAfter(page.attempts)]
    /\ UNCHANGED <<now, gateways, ledger, invoiceCount, settled, minted, calls, checks,
                   payouts, payoutCalls, cron, arg, res, beside>>

\* proxy.ts 96: setTimeout(checkPayment, 1000) fires
PollTimer ==
    /\ page.pc = "wait"
    /\ page' = [page EXCEPT !.pc = "check"]
    /\ UNCHANGED <<now, gateways, ledger, invoiceCount, settled, minted, calls, checks,
                   payouts, payoutCalls, cron, arg, res, beside>>

(***************************************************************************)
(* Time passing beside the proxy                                           *)
(***************************************************************************)
\* ms more on the clock, up to last
Elapse(ms, last) ==
    /\ now < last
    /\ now' = now + ms
    /\ UNCHANGED <<gateways, ledger, invoiceCount, settled, minted, calls, checks,
                   arg, res, other>>

(***************************************************************************)
(* Sign-in with a signed Nostr event: GET /challenge, POST /auth           *)
(***************************************************************************)
NOSTR_TIMESTAMP_WINDOW_SECONDS == 15
CHALLENGE_TTL_MS == 60000
ENFORCE_CHALLENGE_VALIDATION == FALSE

\* challengeStore is the module's map from challenge to {createdAt, used}.
\* The n-th challenge the server issues is n: its random part makes it differ
\* from every other. 0 is a string with the prefix that the server never
\* issued, -1 a string without the prefix.
IdleNostr ==
    [pc |-> "idle", challengeStore |-> << >>, issued |-> 0, signedEvent |-> << >>,
     pubkey |-> "", status |-> 0, error |-> ""]

RespondNostr(status, error) ==
    [nostr EXCEPT !.pc = "done", !.status = status, !.error = error]

\* the entries cleanupChallenges leaves
cleanupChallenges(store) ==
    {c \in DOMAIN store : ~(now - store[c].createdAt > CHALLENGE_TTL_MS * 2)}

\* the handler of GET /challenge: generateChallenge, with or without its
\* occasional cleanup
GenerateChallenge ==
    /\ nostr.issued < MaxChallenges
    /\ \E cleanup \in BOOLEAN :
        LET store == nostr.challengeStore
            kept == IF cleanup THEN cleanupChallenges(store) ELSE DOMAIN store
            challenge == nostr.issued + 1
        IN  nostr' = [nostr EXCEPT
                !.issued = challenge,
                !.challengeStore =
                    [c \in kept \cup {challenge} |->
                        IF c = challenge THEN [createdAt |-> now, used |-> FALSE]
                        ELSE store[c]]]
    /\ UNCHANGED <<now, gateways, ledger, invoiceCount, settled, minted, calls, checks,
                   paying, admin, limiter, sweeping, arg, res>>

\* the result and the store it leaves
validateChallenge(challenge, store) ==
    IF challenge < 0
    THEN [valid |-> FALSE, error |-> "Invalid challenge format", store |-> store]
    ELSE IF challenge \notin DOMAIN store
    THEN [valid |-> FALSE, error |-> "Challenge not found or expired", store |-> store]
    ELSE IF store[challenge].used
    THEN [valid |-> FALSE, error |-> "Challenge already used", store |-> store]
    ELSE IF now - store[challenge].createdAt > CHALLENGE_TTL_MS
    THEN [valid |-> FALSE, error |-> "Challenge expired",
          store |-> [c \in DOMAIN store \ {challenge} |-> store[c]]]
    ELSE [valid |-> TRUE, error |-> "",
          store |-> [store EXCEPT ![challenge].used = TRUE]]

\* the signature of a key over the fields of an event
schnorr(pubkey, kind, created_at, tags) == <<"sig", pubkey, kind, created_at, tags>>

verifyEvent(event) ==
    event.sig = schnorr(event.pubkey, event.kind, event.created_at, event.tags)

\* << >> when no tag is a challenge tag
extractChallengeFromEvent(event) ==
    LET found == {i \in DOMAIN event.tags : event.tags[i][1] = "challenge"}
    IN  IF found = {} THEN << >>
        ELSE <<event.tags[CHOOSE i \in found : \A j \in found : i <= j][2]>>

abs(n) == IF n < 0 THEN -n ELSE n

\* the challenge of the event, validated and consumed
challengeCheck(signedEvent, store) ==
    LET challenge == extractChallengeFromEvent(signedEvent)
    IN  IF challenge = << >>
        THEN [valid |-> FALSE, error |-> "Missing challenge tag", store |-> store]
        ELSE validateChallenge(challenge[1], store)

\* verifyNostrAuth(signedEvent) with requireChallenge left at its default,
\* and the store it leaves
verifyNostrAuth(signedEvent, store) ==
    IF ~verifyEvent(signedEvent)
    THEN [valid |-> FALSE, error |-> "Invalid signature", store |-> store]
    ELSE IF signedEvent.kind # 27235 /\ signedEvent.kind # 22242
    THEN [valid |-> FALSE, error |-> "Invalid event kind", store |-> store]
    ELSE IF abs((now \div 1000) - signedEvent.created_at) > NOSTR_TIMESTAMP_WINDOW_SECONDS
    THEN [valid |-> FALSE, error |-> "Event expired", store |-> store]
    ELSE IF ENFORCE_CHALLENGE_VALIDATION
    THEN challengeCheck(signedEvent, store)
    ELSE [valid |-> TRUE, error |-> "", store |-> store]

\* developers.ts 545-557: the handler of POST /auth up to its first query
VerifyNostrAuth(events) ==
    /\ nostr.pc = "idle"
    /\ \E signedEvent \in events :
        LET authResult == verifyNostrAuth(signedEvent, nostr.challengeStore)
            verified == [nostr EXCEPT !.challengeStore = authResult.store,
                                      !.signedEvent = <<signedEvent>>]
        IN  nostr' = IF ~authResult.valid
                     THEN [verified EXCEPT !.pc = "done", !.status = 400,
                                           !.error = authResult.error]
                     ELSE [verified EXCEPT !.pc = "select",
                                           !.pubkey = signedEvent.pubkey]
    /\ UNCHANGED <<now, gateways, ledger, invoiceCount, settled, minted, calls, checks,
                   paying, admin, limiter, sweeping, arg, res>>

\* developers.ts 557-562 and 569-573: the two selects of the developer
SelectNostrDeveloper ==
    /\ nostr.pc \in {"select", "reselect"}
    /\ nostr' = [nostr EXCEPT !.pc = IF nostr.pubkey \in DOMAIN developers
                                     THEN "token" ELSE "insert"]
    /\ UNCHANGED <<now, gateways, ledger, invoiceCount, settled, minted, calls, checks,
                   paying, admin, limiter, sweeping, arg, res>>

\* developers.ts 564-568: a row with the defaults of the table
InsertNostrDeveloper ==
    /\ nostr.pc = "insert"
    /\ developers' = [d \in DOMAIN developers \cup {nostr.pubkey} |->
                         IF d \in DOMAIN developers THEN developers[d]
                         ELSE [balanceSats |-> 0, lightningAddress |-> << >>]]
    /\ nostr' = [nostr EXCEPT !.pc = "reselect"]
    /\ UNCHANGED <<now, gateways, sessions, topups, requests, invoiceCount, settled,
                   minted, calls, checks, paying, admin, limiter, sweeping, arg, res>>

\* developers.ts 576-585: the token and the answer
GenerateToken ==
    /\ nostr.pc = "token"
    /\ nostr' = RespondNostr(200, "")
    /\ UNCHANGED <<now, gateways, ledger, invoiceCount, settled, minted, calls, checks,
                   paying, admin, limiter, sweeping, arg, res>>

CloseNostr ==
    /\ nostr.pc = "done"
    /\ nostr' = [IdleNostr EXCEPT !.challengeStore = nostr.challengeStore,
                                  !.issued = nostr.issued]
    /\ UNCHANGED <<now, gateways, ledger, invoiceCount, settled, minted, calls, checks,
                   paying, admin, limiter, sweeping, arg, res>>

(***************************************************************************)
(* Rate limiter middleware                                                 *)
(***************************************************************************)
\* index.ts 35-36: the two mounts of the middleware and their options
RateLimits ==
    [api |-> [windowMs |-> 60000, max |-> 100],
     g |-> [windowMs |-> 60000, max |-> 200]]

\* the request paths under a mount that the clients of the model ask for
PathsOf ==
    [api |-> {"/api/sessions", "/api/gateways"}, g |-> {"/g/gA/a"}]

\* requests is the module's map from "ip:path" to {count, resetAt}, key and
\* status the key of the last request and what it got: 429, or 200 when it
\* went on to the route
EmptyMap == [k \in {} |-> 0]

NoHits == [requests |-> EmptyMap, key |-> << >>, status |-> 0]

\* `${ip}:${c.req.path}`
rateLimitKey(ip, path) == <<ip, path>>

\* One request under the mount, from the first line of the middleware to
\* its answer or to next().
RateLimit(mount, ips, paths) ==
    /\ \E ip \in ips, path \in paths, cleanup \in BOOLEAN :
        LET windowMs == RateLimits[mount].windowMs
            max == RateLimits[mount].max
            store == limiter.requests
            key == rateLimitKey(ip, path)
            fresh == key \notin DOMAIN store \/ now > store[key].resetAt
            record == IF fresh THEN [count |-> 1, resetAt |-> now + windowMs]
                      ELSE [store[key] EXCEPT !.count = @ + 1]
            counted == [k \in DOMAIN store \cup {key} |->
                           IF k = key THEN record ELSE store[k]]
            live == {k \in DOMAIN counted : ~(now > counted[k].resetAt)}
        IN  limiter' =
                IF record.count > max
                THEN [requests |-> counted, key |-> key, status |-> 429]
                ELSE [requests |-> IF cleanup THEN [k \in live |-> counted[k]]
                                   ELSE counted,
                      key |-> key, status |-> 200]
    /\ UNCHANGED <<now, gateways, ledger, invoiceCount, settled, minted, calls, checks,
                   paying, admin, nostr, sweeping, arg, res>>

(***************************************************************************)
(* Scheduled job: the platform fee sweep                                   *)
(***************************************************************************)
SweepSlots == 1..MaxSweepRuns

\* PLATFORM_LIGHTNING_ADDRESS of the deployment: << >> when it is not set
PlatformAddresses == {<< >>, <<"platform@ln">>}

IdleSweep == [pc |-> "idle", totalFees |-> 0, pendingFees |-> 0, sweepId |-> 0]

RECURSIVE sumOf(_, _)
\* sum(column) over the rows
sumOf(rows, column) ==
    IF rows = << >> THEN 0
    ELSE rows[1][column] + sumOf(Tail(rows), column)

completedSweeps(rows) == SelectSeq(rows, LAMBDA row : row.status = "completed")

\* part_003 47-52: sum(amountSats) where status = "completed"
sweptSoFar(rows) == sumOf(completedSweeps(rows), "amountSats")

\* part_003 35-45: a run starts; without the address it returns at once,
\* else it sums the platform fees of the request log
SumFees(w) ==
    /\ sweepers[w].pc = "idle"
    /\ \A v \in SweepSlots : v < w => sweepers[v].pc # "idle"
    /\ \E platformAddress \in PlatformAddresses :
        sweepers' = [sweepers EXCEPT ![w] =
            IF platformAddress = << >> THEN [IdleSweep EXCEPT !.pc = "done"]
            ELSE [IdleSweep EXCEPT !.pc = "sumSwept",
                                   !.totalFees = sumOf(requests, "platformFeeSats")]]
    /\ UNCHANGED <<now, gateways, ledger, invoiceCount, settled, minted, calls, checks,
                   paying, admin, guarding, platformSweeps, arg, res>>

\* part_003 47-58: the completed sweeps are summed and the run decides
SumSwept(w) ==
    /\ sweepers[w].pc = "sumSwept"
    /\ LET pendingFees == sweepers[w].totalFees - sweptSoFar(platformSweeps)
       IN  sweepers' = [sweepers EXCEPT ![w] =
               IF pendingFees >= MIN_PAYOUT_SATS
               THEN [@ EXCEPT !.pc = "insert", !.pendingFees = pendingFees]
               ELSE [@ EXCEPT !.pc = "done", !.pendingFees = pendingFees]]
    /\ UNCHANGED <<now, gateways, ledger, invoiceCount, settled, minted, calls, checks,
                   paying, admin, guarding, platformSweeps, arg, res>>

\* part_003 61-69
InsertSweep(w) ==
    /\ sweepers[w].pc = "insert"
    /\ platformSweeps' = Append(platformSweeps,
           [amountSats |-> sweepers[w].pendingFees, status |-> "pending"])
    /\ sweepers' = [sweepers EXCEPT ![w].pc = "pay",
                                    ![w].sweepId = Len(platformSweeps) + 1]
    /\ UNCHANGED <<now, gateways, ledger, invoiceCount, settled, minted, calls, checks,
                   paying, admin, guarding, arg, res>>

\* part_003 71-77: alby.payToLightningAddress returns or throws
PaySweep(w) ==
    /\ sweepers[w].pc = "pay"
    /\ \E threw \in BOOLEAN :
        sweepers' = [sweepers EXCEPT ![w].pc = IF threw THEN "fail" ELSE "complete"]
    /\ UNCHANGED <<now, gateways, ledger, invoiceCount, settled, minted, calls, checks,
                   paying, admin, guarding, platformSweeps, arg, res>>

\* part_003 79-89 and 90-98
MarkSweep(w) ==
    /\ sweepers[w].pc \in {"complete", "fail"}
    /\ platformSweeps' = [platformSweeps EXCEPT ![sweepers[w].sweepId].status =
                              IF sweepers[w].pc = "complete" THEN "completed"
                              ELSE "failed"]
    /\ sweepers' = [sweepers EXCEPT ![w].pc = "done"]
    /\ UNCHANGED <<now, gateways, ledger, invoiceCount, settled, minted, calls, checks,
                   paying, admin, guarding, arg, res>>

SweepStep(w) ==
    \/ SumFees(w)
    \/ SumSwept(w)
    \/ InsertSweep(w)
    \/ PaySweep(w)
    \/ MarkSweep(w)

(***************************************************************************)
(* The system: handlers of concurrent requests, session-key clients        *)
(***************************************************************************)
InitLedger(balance) ==
    /\ now = 0
    /\ gateways = GatewayRows
    /\ developers = DeveloperRows
    /\ sessions = SessionRows(balance)
    /\ topups = << >>
    /\ requests = << >>
    /\ invoiceCount = 0
    /\ settled = {}
    /\ minted = {}
    /\ calls = [c \in CallSlots |-> IdleCall]
    /\ checks = [k \in CheckSlots |-> IdleCheck]
    /\ payouts = << >>
    /\ payoutCalls = [p \in PayoutSlots |-> IdlePayout]
    /\ cron = IdleCron
    /\ page = NoPage
    /\ admin = IdleAdmin
    /\ nostr = IdleNostr
    /\ limiter = NoHits
    /\ platformSweeps = << >>
    /\ sweepers = [w \in SweepSlots |-> IdleSweep]

Init ==
    /\ InitLedger(OpeningBalance)
    /\ arg = << >>
    /\ res = << >>

\* Clients that send no Authorization header
NoAuth == {<< >>}
UpstreamOk == {200}

CallStep(c) ==
    \/ LookupSession(c)
    \/ InsertSession(c)
    \/ CreateInvoice(c)
    \/ CreateInvoiceFails(c)
    \/ InsertTopup(c)
    \/ Debit(c)
    \/ SelectDeveloper(c)
    \/ CreditDeveloper(c)
    \/ LogRequest(c)

CheckStep(k) ==
    \/ LookupTopup(k)
    \/ GetInvoice(k)
    \/ MarkPaid(k)
    \/ CreditSession(k)

Next ==
    \/ \E c \in 1..MaxCalls :
        \/ ResolveGateway(c, RequestGatewayIds, RequestPaths, NoAuth, BOOLEAN)
        \/ Fetch(c, UpstreamOk)
        \/ CallStep(c)
    \/ \E k \in 1..MaxChecks : AuthenticateSession(k) \/ CheckStep(k)
    \/ PayInvoice

Spec == Init /\ [][Next]_vars

(***************************************************************************)
(* Status checks concurrent with each other; a proxy request runs from its *)
(* first step to its response with no other handler taking a step         *)
(***************************************************************************)
NoCallInFlight == \A c \in CallSlots : ~InFlight(calls[c])

NextTopup ==
    \/ \E c \in 1..MaxCalls :
        \/ NoCallInFlight /\ ResolveGateway(c, RequestGatewayIds, RequestPaths, NoAuth, BOOLEAN)
        \/ Fetch(c, UpstreamOk)
        \/ CallStep(c)
    \/ \E k \in 1..MaxChecks :
        NoCallInFlight /\ (AuthenticateSession(k) \/ CheckStep(k))
    \/ PayInvoice

SpecTopup == Init /\ [][NextTopup]_vars

(***************************************************************************)
(* One request at a time against the priced gateway                        *)
(***************************************************************************)
InitSeq ==
    /\ InitLedger(OpeningBalanceSeq)
    /\ arg = << >>
    /\ res = << >>

PricedGateway == {"gA"}
PricedPaths == {PaidPath}

\* the ledger of the run has room for what one more request can add
Room ==
    /\ Len(requests) < MaxLog
    /\ invoiceCount < MaxInvoices
    /\ Len(sessions) < MaxSessions

NextSeq ==
    \/ Quiescent /\ Room /\ ResolveGateway(1, PricedGateway, PricedPaths, NoAuth, BOOLEAN)
    \/ Fetch(1, UpstreamStatuses)
    \/ CallStep(1)
    \/ Close(1)
    \/ Quiescent /\ AuthenticateSession(1)
    \/ CheckStep(1)
    \/ CloseCheck(1)
    \/ PayInvoice

SpecSeq == InitSeq /\ [][NextSeq]_vars

(***************************************************************************)
(* One request at a time against every gateway id and path                 *)
(***************************************************************************)
\* an active gateway with a free route, an inactive one and an unknown id
EntryGateways == {"gA", "gC", "gX"}

NextEntry ==
    \/ Quiescent /\ Room
           /\ ResolveGateway(1, EntryGateways, RequestPaths, NoAuth, BOOLEAN)
    \/ Fetch(1, UpstreamStatuses)
    \/ CallStep(1)
    \/ Close(1)

SpecEntry == InitSeq /\ [][NextEntry]_vars

(***************************************************************************)
(* One request at a time, clients that present vouchers, the clock running *)
(***************************************************************************)
\* the two active gateways: a voucher of one can be shown to the other
VoucherGateways == {"gA", "gB"}

VoucherPaths == {PaidPath, PremiumPath}

\* clients that do not accept HTML
ApiClients == {FALSE}

NextVoucher ==
    \/ Quiescent /\ Room
           /\ ResolveGateway(1, VoucherGateways, PricedPaths, RequestAuths, ApiClients)
    \/ Fetch(1, UpstreamOk)
    \/ LookupSession(1)
    \/ CreateInvoice(1)
    \/ CreateInvoiceFails(1)
    \/ Debit(1)
    \/ SelectDeveloper(1)
    \/ CreditDeveloper(1)
    \/ LogRequest(1)
    \/ Close(1)
    \/ PayInvoice
    \/ Tick

SpecVoucher == Init /\ [][NextVoucher]_vars

\* API clients of one gateway asking for its two priced paths, with vouchers
NextVoucherPaths ==
    \/ Quiescent /\ Room
           /\ ResolveGateway(1, PricedGateway, VoucherPaths, RequestAuths, ApiClients)
    \/ Fetch(1, UpstreamOk)
    \/ LookupSession(1)
    \/ CreateInvoice(1)
    \/ CreateInvoiceFails(1)
    \/ Debit(1)
    \/ SelectDeveloper(1)
    \/ CreditDeveloper(1)
    \/ LogRequest(1)
    \/ Close(1)
    \/ PayInvoice

SpecVoucherPaths == Init /\ [][NextVoucherPaths]_vars

(***************************************************************************)
(* One request at a time, upstreams that answer with errors                *)
(***************************************************************************)
\* a success, a client error and a server error
RoundTripStatuses == {200, 404, 500}

NextStatus ==
    \/ Quiescent /\ Room
           /\ ResolveGateway(1, PricedGateway, PricedPaths, NoAuth, ApiClients)
    \/ Fetch(1, RoundTripStatuses)
    \/ LookupSession(1)
    \/ CreateInvoice(1)
    \/ CreateInvoiceFails(1)
    \/ Debit(1)
    \/ SelectDeveloper(1)
    \/ CreditDeveloper(1)
    \/ LogRequest(1)
    \/ Close(1)

SpecStatus == InitSeq /\ [][NextStatus]_vars

(***************************************************************************)
(* A voucher shown a second time while its first request waits upstream    *)
(***************************************************************************)
\* the first request carries an Authorization header and is not answered yet
Presented == calls[1].auth # << >> /\ InFlight(calls[1])

\* the header of the first request verified and its voucher has not expired
StillGood ==
    /\ calls[1].verification[1].valid
    /\ now <= decodeMacaroon(calls[1].auth[1].macaroon)[1].expires

\* Slot 1 takes the requests of the clients of the priced gateway one at a
\* time. While a request with a voucher is in flight there, slot 2 takes the
\* requests of other clients, and requests that show the same voucher to the
\* same gateway.
NextVoucherAgain ==
    \/ Quiescent /\ Room
           /\ ResolveGateway(1, PricedGateway, PricedPaths, RequestAuths, ApiClients)
    \/ Presented /\ Room
           /\ ResolveGateway(2, PricedGateway, PricedPaths, NoAuth, ApiClients)
    \/ Presented /\ (Room \/ StillGood)
           /\ ResolveGateway(2, {calls[1].gatewayId}, PricedPaths, {calls[1].auth},
                              ApiClients)
    \/ \E c \in {1, 2} :
           \/ Fetch(c, UpstreamOk)
           \/ LookupSession(c)
           \/ CreateInvoice(c)
           \/ CreateInvoiceFails(c)
           \/ Debit(c)
           \/ SelectDeveloper(c)
           \/ CreditDeveloper(c)
           \/ LogRequest(c)
           \/ Close(c)
    \/ PayInvoice
    \/ Tick

SpecVoucherAgain == Init /\ [][NextVoucherAgain]_vars

(***************************************************************************)
(* Sign-in requests, one at a time, the clock running                      *)
(***************************************************************************)
\* a known developer and a key that has no account yet
NostrPubkeys == {"d1", "d3"}
\* the two kinds the route takes and a text note
EventKinds == {27235, 22242, 1}
\* the challenges a client can put in a tag: the issued ones, one the server
\* never issued, one without the prefix
ClientChallenges == (-1)..nostr.issued
ClientTags == {<< >>} \cup {<<<<"challenge", c>>>> : c \in ClientChallenges}
\* signed now, or half a minute ago
ClientTimes == {now \div 1000, (now \div 1000) - 30}

signed(pubkey, kind, created_at, tags) ==
    [pubkey |-> pubkey, kind |-> kind, created_at |-> created_at, tags |-> tags,
     sig |-> schnorr(pubkey, kind, created_at, tags)]

\* events signed by their key, and events with the key of another put in
ClientEvents ==
    LET genuine == {signed(k, kind, t, tags) :
                       k \in NostrPubkeys, kind \in EventKinds,
                       t \in ClientTimes, tags \in ClientTags}
    IN  genuine \cup {[e EXCEPT !.pubkey = "d1"] : e \in {g \in genuine : g.pubkey = "d3"}}

\* the clock moves by half the life of a challenge, up to the time the
\* cleanup drops the first one
ElapseMs == CHALLENGE_TTL_MS \div 2
LastMs == MaxElapses * ElapseMs

NextNostr ==
    \/ GenerateChallenge
    \/ VerifyNostrAuth(ClientEvents)
    \/ SelectNostrDeveloper
    \/ InsertNostrDeveloper
    \/ GenerateToken
    \/ CloseNostr
    \/ Elapse(ElapseMs, LastMs)

SpecNostr == InitSeq /\ [][NextNostr]_vars

(***************************************************************************)
(* One client address under the rate limiter, the clock running            *)
(***************************************************************************)
LimitedClients == {"ip1"}
\* the path the client hammers, and the requests it sends to every other
\* path within one window
BusyPath == "/api/sessions"
MaxOtherHits == 2

\* the requests the record of the key has counted in its window
Hits(ip, path) ==
    LET key == rateLimitKey(ip, path)
    IN  IF key \in DOMAIN limiter.requests /\ ~(now > limiter.requests[key].resetAt)
        THEN limiter.requests[key].count ELSE 0

\* the client stops when it is refused, until the window has reset
NextLimiter ==
    \/ \E mount \in DOMAIN RateLimits, ip \in LimitedClients :
           \E path \in PathsOf[mount] :
               /\ Hits(ip, path) <= IF path = BusyPath THEN RateLimits[mount].max
                                    ELSE MaxOtherHits - 1
               /\ RateLimit(mount, {ip}, {path})
    \/ Elapse(RateLimits.api.windowMs, 2 * RateLimits.api.windowMs)

SpecLimiter == InitSeq /\ [][NextLimiter]_vars

(***************************************************************************)
(* Sweep runs beside requests to a gateway of a high price                 *)
(***************************************************************************)
\* At two percent a request of 2500 sats leaves 50 sats of platform fee.
SweepGatewayRows == [GatewayRows EXCEPT !.gA.pricePerRequestSats = 2500]
SweepOpeningBalance == 7500

InitSweep ==
    /\ now = 0
    /\ gateways = SweepGatewayRows
    /\ developers = DeveloperRows
    /\ sessions = SessionRows(SweepOpeningBalance)
    /\ topups = << >>
    /\ requests = << >>
    /\ invoiceCount = 0
    /\ settled = {}
    /\ minted = {}
    /\ calls = [c \in CallSlots |-> IdleCall]
    /\ checks = [k \in CheckSlots |-> IdleCheck]
    /\ payouts = << >>
    /\ payoutCalls = [p \in PayoutSlots |-> IdlePayout]
    /\ cron = IdleCron
    /\ page = NoPage
    /\ admin = IdleAdmin
    /\ nostr = IdleNostr
    /\ limiter = NoHits
    /\ platformSweeps = << >>
    /\ sweepers = [w \in SweepSlots |-> IdleSweep]
    /\ arg = << >>
    /\ res = << >>

\* the clients send the key of the session that has the balance
NextSweep ==
    \/ Quiescent /\ Room
           /\ ResolveGateway(1, PricedGateway, PricedPaths, NoAuth, ApiClients)
    \/ LookupSession(1)
    \/ CreateInvoice(1)
    \/ CreateInvoiceFails(1)
    \/ Fetch(1, UpstreamOk)
    \/ Debit(1)
    \/ SelectDeveloper(1)
    \/ CreditDeveloper(1)
    \/ LogRequest(1)
    \/ Close(1)
    \/ \E w \in SweepSlots : SweepStep(w)

SpecSweep == InitSweep /\ [][NextSweep]_vars

(***************************************************************************)
(* Gateway owners updating and deleting gateways while one proxy request   *)
(* at a time is served                                                     *)
(***************************************************************************)
AdminOps == {"patch", "delete"}
\* d1 owns gA and gC, d2 owns gB
AdminClients == {"d1", "d2"}
AdminGateways == {"gA", "gB"}

NextGateways ==
    \/ Quiescent /\ Room
           /\ ResolveGateway(1, PricedGateway, PricedPaths, NoAuth, ApiClients)
    \/ LookupSession(1)
    \/ CreateInvoice(1)
    \/ CreateInvoiceFails(1)
    \/ Fetch(1, UpstreamOk)
    \/ Debit(1)
    \/ SelectDeveloper(1)
    \/ CreditDeveloper(1)
    \/ LogRequest(1)
    \/ Close(1)
    \/ AuthenticateOwner(AdminOps, AdminClients, AdminGateways)
    \/ SelectOwnGateway
    \/ UpdateGateway
    \/ DeleteGateway
    \/ CloseAdmin

SpecGateways == InitSeq /\ [][NextGateways]_vars

(***************************************************************************)
(* A payment page polling for its top-up                                   *)
(***************************************************************************)
InitPage ==
    /\ now = 0
    /\ gateways = GatewayRows
    /\ developers = DeveloperRows
    /\ sessions = SessionRows(OpeningBalance)
    /\ topups = << >>
    /\ requests = << >>
    /\ invoiceCount = 0
    /\ settled = {}
    /\ minted = {}
    /\ calls = [c \in CallSlots |-> IdleCall]
    /\ checks = [k \in CheckSlots |-> IdleCheck]
    /\ payouts = << >>
    /\ payoutCalls = [p \in PayoutSlots |-> IdlePayout]
    /\ cron = IdleCron
    /\ page = LoadedPage
    /\ admin = IdleAdmin
    /\ nostr = IdleNostr
    /\ limiter = NoHits
    /\ platformSweeps = << >>
    /\ sweepers = [w \in SweepSlots |-> IdleSweep]
    /\ arg = << >>
    /\ res = << >>

NextPage == CheckPayment \/ PollTimer

SpecPage == InitPage /\ [][NextPage]_vars

\* a poll that was sent comes back or throws, and a timer that was set fires
SpecPageLive == SpecPage /\ WF_vars(CheckPayment) /\ WF_vars(PollTimer)

(***************************************************************************)
(* Payouts: manual payout requests, the scheduled job and proxy requests   *)
(* up to the first settlement, all interleaved                             *)
(***************************************************************************)
\* d1 owns gateway gA and can be paid out; d2 is below the minimum of the
\* job; d3 has no Lightning address; d4 has the empty string as address
PayoutDeveloperRows ==
    [d \in {"d1", "d2", "d3", "d4"} |->
        [balanceSats |-> IF d = "d1" THEN 100 ELSE IF d = "d2" THEN 50 ELSE 150,
         lightningAddress |-> IF d = "d3" THEN << >>
                              ELSE IF d = "d4" THEN <<"">> ELSE <<"ln">>]]

\* the developers whose tokens the clients hold, and one of no developer
PayoutClients == {"d1", "d3", "dX"}
PayoutAmounts == {100, 150}

InitPayouts ==
    /\ now = 0
    /\ gateways = GatewayRows
    /\ developers = PayoutDeveloperRows
    /\ sessions = SessionRows(OpeningBalanceSeq)
    /\ topups = << >>
    /\ requests = << >>
    /\ invoiceCount = 0
    /\ settled = {}
    /\ minted = {}
    /\ calls = [c \in CallSlots |-> IdleCall]
    /\ checks = [k \in CheckSlots |-> IdleCheck]
    /\ payouts = << >>
    /\ payoutCalls = [p \in PayoutSlots |-> IdlePayout]
    /\ cron = IdleCron
    /\ page = NoPage
    /\ admin = IdleAdmin
    /\ nostr = IdleNostr
    /\ limiter = NoHits
    /\ platformSweeps = << >>
    /\ sweepers = [w \in SweepSlots |-> IdleSweep]
    /\ arg = << >>
    /\ res = << >>

NextPayouts ==
    \/ Quiescent /\ Room /\ requests = << >>
           /\ ResolveGateway(1, PricedGateway, PricedPaths, NoAuth, ApiClients)
    \/ LookupSession(1)
    \/ CreateInvoice(1)
    \/ CreateInvoiceFails(1)
    \/ Fetch(1, UpstreamOk)
    \/ Debit(1)
    \/ SelectDeveloper(1)
    \/ CreditDeveloper(1)
    \/ LogRequest(1)
    \/ Close(1)
    \/ \E p \in PayoutSlots :
           AuthenticateDeveloper(p, PayoutClients, PayoutAmounts) \/ PayoutStep(p)
    \/ SelectEligible
    \/ CronStep

SpecPayouts == InitPayouts /\ [][NextPayouts]_vars

(***************************************************************************)
(* The fee calculator on its own                                           *)
(***************************************************************************)
(***************************************************************************)
(* forwardRequest: the query string and the headers of the upstream request *)
(***************************************************************************)
\* URLSearchParams.set(key, value): the first pair of that key gets the
\* value and the other pairs of that key are removed; without such a pair
\* the pair is appended
RECURSIVE withoutKey(_, _)
withoutKey(params, key) ==
    IF params = << >> THEN << >>
    ELSE IF params[1].key = key THEN withoutKey(Tail(params), key)
    ELSE <<params[1]>> \o withoutKey(Tail(params), key)

RECURSIVE searchParamsSet(_, _, _)
searchParamsSet(params, key, value) ==
    IF params = << >> THEN <<[key |-> key, value |-> value]>>
    ELSE IF params[1].key = key
    THEN <<[key |-> key, value |-> value]>> \o withoutKey(Tail(params), key)
    ELSE <<params[1]>> \o searchParamsSet(Tail(params), key, value)

\* proxy.ts 1441-1447: originalUrl.searchParams.forEach over the pairs of
\* the inbound query, in order, onto the target URL (which starts without
\* a query)
RECURSIVE copyQuery(_, _)
copyQuery(original, target) ==
    IF original = << >> THEN target
    ELSE copyQuery(Tail(original),
                   IF original[1].key # "session_key"
                   THEN searchParamsSet(target, original[1].key, original[1].value)
                   ELSE target)

\* proxy.ts 1450-1453
headersToExclude ==
    {"host", "connection", "keep-alive", "transfer-encoding", "te", "trailer",
     "upgrade", "x-session-key", "authorization"}

\* proxy.ts 1455-1460: a Headers object holds one value per lower-cased name
copyHeaders(headers) ==
    [key \in DOMAIN headers \ headersToExclude |-> headers[key]]

\* the query and the headers of the request that goes upstream
upstreamRequest(request) ==
    [query |-> copyQuery(request.query, << >>), headers |-> copyHeaders(request.headers)]

\* inbound requests: query strings of up to MaxParams pairs, with the
\* credential parameter, a parameter whose name differs from it in case and
\* an ordinary one; headers out of the credentials, a hop-by-hop header and
\* two others
MaxParams == 2
QueryKeys == {"session_key", "Session_Key", "q"}
QueryValues == {"1", "2"}
QueryPairs == {[key |-> k, value |-> v] : k \in QueryKeys, v \in QueryValues}
Queries == UNION {[1..n -> QueryPairs] : n \in 0..MaxParams}
HeaderNames == {"authorization", "x-session-key", "connection", "content-type", "cookie"}
HeaderSets == {[key \in names |-> "v"] : names \in SUBSET HeaderNames}
ForwardInputs == {<<[query |-> q, headers |-> h]>> : q \in Queries, h \in HeaderSets}

InitForward ==
    /\ InitLedger(OpeningBalance)
    /\ arg \in ForwardInputs
    /\ res = << >>

ApplyUpstreamRequest ==
    /\ res = << >>
    /\ res' = <<upstreamRequest(arg[1])>>
    /\ UNCHANGED <<now, gateways, ledger, invoiceCount, settled, minted, calls, checks, arg, other>>

SpecForward == InitForward /\ [][ApplyUpstreamRequest]_vars

FeeInputs == {<<[costSats |-> c, feePercent |-> f]>> : c \in 0..MaxCost, f \in 0..100}

InitFees ==
    /\ InitLedger(OpeningBalance)
    /\ arg \in FeeInputs
    /\ res = << >>

ApplyCalculateFees ==
    /\ res = << >>
    /\ res' = <<calculateFees(arg[1].costSats, arg[1].feePercent)>>
    /\ UNCHANGED <<now, gateways, ledger, invoiceCount, settled, minted, calls, checks, arg, other>>

SpecFees == InitFees /\ [][ApplyCalculateFees]_vars

\* the binding left undefined, "", "0", "5", "10", "100", "101", "150",
\* "-5" and "x"
FeeEnvValues ==
    {<< >>, << << >> >>, << <<"0">> >>, << <<"5">> >>, << <<"1", "0">> >>,
     << <<"1", "0", "0">> >>, << <<"1", "0", "1">> >>, << <<"1", "5", "0">> >>,
     << <<"-", "5">> >>, << <<"x">> >>}

FeeEnvCosts == 0..MaxCost \cup {100}

FeeEnvInputs == {<<[envValue |-> e, costSats |-> c]>> : e \in FeeEnvValues, c \in FeeEnvCosts}

InitFeePercent ==
    /\ InitLedger(OpeningBalance)
    /\ arg \in FeeEnvInputs
    /\ res = << >>

\* getPlatformFeePercent(envValue), and calculateFees(costSats) with its
\* second parameter left to the default
ApplyGetPlatformFeePercent ==
    /\ res = << >>
    /\ res' = <<[percent |-> getPlatformFeePercent(arg[1].envValue),
                 fees |-> calculateFees(arg[1].costSats, DEFAULT_PLATFORM_FEE_PERCENT)]>>
    /\ UNCHANGED <<now, gateways, ledger, invoiceCount, settled, minted, calls, checks, arg, other>>

SpecFeePercent == InitFeePercent /\ [][ApplyGetPlatformFeePercent]_vars

(***************************************************************************)
(* The voucher verifier on its own                                         *)
(***************************************************************************)
\* what the server signs when it mints at time 0
MintedFields ==
    [paymentHash : {PaymentHash(1), PaymentHash(2)}, gatewayId : VoucherGateways,
     path : VoucherPaths, price : {10, 20}, expires : {VoucherTtlMs}]

sealed(fields, signature) ==
    <<"b64", [paymentHash |-> fields.paymentHash, gatewayId |-> fields.gatewayId,
              path |-> fields.path, price |-> fields.price,
              expires |-> fields.expires, signature |-> signature]>>

\* a minted voucher with one field edited and the signature left as it was
edits(fields) ==
    {[fields EXCEPT !.paymentHash = IF @ = PaymentHash(1) THEN PaymentHash(2)
                                    ELSE PaymentHash(1)],
     [fields EXCEPT !.gatewayId = IF @ = "gA" THEN "gB" ELSE "gA"],
     [fields EXCEPT !.path = IF @ = PaidPath THEN PremiumPath ELSE PaidPath],
     [fields EXCEPT !.price = 0],
     [fields EXCEPT !.expires = @ + VoucherTtlMs]}

\* minted vouchers, edited ones, vouchers signed with another secret, and
\* bytes that do not decode
VerifyMacaroons ==
    {sealed(f, signMacaroon(f, ServerSecret)) : f \in MintedFields}
        \cup UNION {{sealed(e, signMacaroon(f, ServerSecret)) : e \in edits(f)} :
                       f \in MintedFields}
        \cup {sealed(f, signMacaroon(f, OtherSecret)) : f \in MintedFields}
        \cup {<<"garbage">>}

\* "01", "02", "00", a string of odd length and one that is not hex
VerifyPreimages == {Preimage(1), Preimage(2), BadPreimage, <<"0">>, <<"1", "g">>}

VerifyInputs ==
    {<<[token |-> [macaroon |-> m, preimage |-> p], gatewayId |-> g]>> :
        m \in VerifyMacaroons, p \in VerifyPreimages, g \in VoucherGateways}

\* at the mint, at the expiry time and past it
VerifyTimes == {0, VoucherTtlMs, VoucherTtlMs + 1}

InitVerify ==
    /\ gateways = GatewayRows
    /\ developers = DeveloperRows
    /\ sessions = SessionRows(OpeningBalance)
    /\ topups = << >>
    /\ requests = << >>
    /\ invoiceCount = 0
    /\ settled = {}
    /\ minted = {}
    /\ calls = [c \in CallSlots |-> IdleCall]
    /\ checks = [k \in CheckSlots |-> IdleCheck]
    /\ payouts = << >>
    /\ payoutCalls = [p \in PayoutSlots |-> IdlePayout]
    /\ cron = IdleCron
    /\ page = NoPage
    /\ admin = IdleAdmin
    /\ nostr = IdleNostr
    /\ limiter = NoHits
    /\ platformSweeps = << >>
    /\ sweepers = [w \in SweepSlots |-> IdleSweep]
    /\ now \in VerifyTimes
    /\ arg \in VerifyInputs
    /\ res = << >>

ApplyVerifyL402Token ==
    /\ res = << >>
    /\ res' = <<verifyL402Token(arg[1].token, arg[1].gatewayId, PaidPath, ServerSecret)>>
    /\ UNCHANGED <<now, gateways, ledger, invoiceCount, settled, minted, calls, checks, arg, other>>

SpecVerify == InitVerify /\ [][ApplyVerifyL402Token]_vars

(***************************************************************************)
(* The route pricer on its own                                             *)
(***************************************************************************)
\* "/*", "/**", "/a", "/a/*", "*" and "/b"
PricerPatterns ==
    {<<Slash, "*">>, <<Slash, "*", "*">>, <<Slash, "a">>, <<Slash, "a", Slash, "*">>,
     <<"*">>, <<Slash, "b">>}

\* "/", "/a", "/b", "/a/b" and "/b/a/a"
PricerPaths ==
    {<<Slash>>, <<Slash, "a">>, <<Slash, "b">>, <<Slash, "a", Slash, "b">>,
     <<Slash, "b", Slash, "a", Slash, "a">>}

PricerRules == [pattern : PricerPatterns, price : {0, 5}]

RuleLists == UNION {[1..n -> PricerRules] : n \in 0..MaxRules}

\* a null rule list, or a parsed one
PricerInputs ==
    {<<[rules |-> r, path |-> p, defaultPrice |-> 10]>> :
        r \in {<< >>} \cup {<<l>> : l \in RuleLists}, p \in PricerPaths}

InitPricer ==
    /\ InitLedger(OpeningBalance)
    /\ arg \in PricerInputs
    /\ res = << >>

ApplyFindMatchingRule ==
    /\ res = << >>
    /\ res' = <<findMatchingRule(arg[1].rules, arg[1].path, arg[1].defaultPrice)>>
    /\ UNCHANGED <<now, gateways, ledger, invoiceCount, settled, minted, calls, checks, arg, other>>

SpecPricer == InitPricer /\ [][ApplyFindMatchingRule]_vars

(***************************************************************************)
(* matchPath on its own                                                    *)
(***************************************************************************)
\* "/*", "/**", "/a", "/a/*", "*", "/b", "/a.b" and "/*/b"
MatchPatterns ==
    PricerPatterns \cup {<<Slash, "a", ".", "b">>, <<Slash, "*", Slash, "b">>}

\* "/", "/a", "/b", "/a/b", "/b/a/a", "/a.b", "/aab" and "/a/"
MatchPaths ==
    PricerPaths \cup {<<Slash, "a", ".", "b">>, <<Slash, "a", "a", "b">>,
                      <<Slash, "a", Slash>>}

MatchInputs == {<<[pattern |-> q, path |-> p]>> : q \in MatchPatterns, p \in MatchPaths}

InitMatch ==
    /\ InitLedger(OpeningBalance)
    /\ arg \in MatchInputs
    /\ res = << >>

ApplyMatchPath ==
    /\ res = << >>
    /\ res' = <<matchPath(arg[1].pattern, arg[1].path)>>
    /\ UNCHANGED <<now, gateways, ledger, invoiceCount, settled, minted, calls, checks, arg, other>>

SpecMatch == InitMatch /\ [][ApplyMatchPath]_vars

(***************************************************************************)
(* Properties                                                              *)
(***************************************************************************)
SessionIds == 1..Len(sessions)

\* the balance a session started the run with
Opening(s) == IF s = 1 THEN OpeningBalance ELSE 0

RECURSIVE SumOver(_, _)
SumOver(f, S) ==
    IF S = {} THEN 0
    ELSE LET x == CHOOSE y \in S : TRUE IN f[x] + SumOver(f, S \ {x})

\* what the log says the session was charged, the developer earned
ChargedTo(s) ==
    SumOver([i \in 1..Len(requests) |-> requests[i].costSats],
            {i \in 1..Len(requests) : requests[i].sessionId = s})

EarnedBy(d) ==
    SumOver([i \in 1..Len(requests) |-> requests[i].devEarningsSats],
            {i \in 1..Len(requests) : gateways[requests[i].gatewayId].developerId = d})

\* the amounts of the session's top-ups that are marked paid
PaidInto(s) ==
    SumOver([t \in 1..Len(topups) |-> topups[t].amountSats],
            {t \in 1..Len(topups) : topups[t].sessionId = s /\ topups[t].status = "paid"})

\* the request was forwarded and charged to session s
Charged(c, s) ==
    /\ calls[c].pc = "done"
    /\ calls[c].sessionId = s
    /\ calls[c].costSats > 0
    /\ calls[c].xBalanceRemaining # << >>

\* C1: of two requests that use the same session, whose balance covers only
\* one of them, at most one is forwarded and charged (the other gets a 402).
C1_OneOfTwoCharged ==
    \A s \in SessionIds : \A c1, c2 \in CallSlots :
        (c1 # c2 /\ Charged(c1, s) /\ Charged(c2, s) /\ PaidInto(s) = 0)
            => calls[c1].costSats + calls[c2].costSats <= Opening(s)

\* C2: the stored balance of a session is never negative.
C2_BalanceNeverNegative ==
    \A s \in SessionIds : sessions[s].balanceSats >= 0

\* a session was brought to zero by a charge while a top-up of the run is paid
C2_Witness ==
    /\ Len(requests) > 0
    /\ \E t \in 1..Len(topups) : topups[t].status = "paid"
    /\ \E s \in SessionIds : sessions[s].balanceSats = 0 /\ ChargedTo(s) > 0

\* C3: a request whose upstream fetch throws is answered with 502, and that
\* handler has written no ledger row, neither before the fetch nor in the
\* step that fails.
C3_FailedFetchChargesNothing ==
    [][\A c \in CallSlots :
          (calls'[c].pc = "done" /\ calls'[c].status = 502)
              => /\ calls'[c].writes = 0
                 /\ calls[c].pc = "fetch" => UNCHANGED ledger]_vars

\* a session-paid request at a price above zero ended with 502
C3_Witness ==
    \E c \in CallSlots :
        /\ calls[c].pc = "done" /\ calls[c].status = 502
        /\ calls[c].sessionId # 0 /\ calls[c].costSats > 0

\* C4: when no handler is in flight, every settlement is in the ledger whole:
\* each session without a paid top-up is down by what the log charged to it,
\* each developer is up by what the log says they earned.
C4_SettlementWhole ==
    Quiescent =>
        /\ \A s \in SessionIds :
               PaidInto(s) = 0 => sessions[s].balanceSats = Opening(s) - ChargedTo(s)
        /\ \A d \in DOMAIN developers : developers[d].balanceSats = EarnedBy(d)

\* C5: when no handler is in flight, a session's balance is its opening
\* balance, plus each paid top-up once, minus what the log charged to it.
C5_CreditedOnce ==
    Quiescent =>
        \A s \in SessionIds :
            sessions[s].balanceSats = Opening(s) + PaidInto(s) - ChargedTo(s)

\* C6: with one request after the other, a request with the key of a session
\* is forwarded exactly when the stored balance covers the price; when the
\* upstream answers, the stored balance ends up the balance before the
\* request minus the price and X-Balance-Remaining reports it; a request on
\* the way to its 402 changes no stored balance.
C6_SequentialCharging ==
    [][\A c \in CallSlots :
          LET call == calls[c]
              after == calls'[c]
          IN  /\ (call.pc = "session" /\ after # call) =>
                    \A s \in SessionIds : sessions[s].sessionKey = call.sessionKey =>
                        /\ after.pc = "fetch" <=> sessions[s].balanceSats >= call.costSats
                        /\ after.pc # "fetch" => after.pc = "invoice"
                        /\ after.session = <<sessions[s]>>
              /\ (call.pc = "fetch" /\ call.session # << >> /\ after.pc = "done")
                    => after.status = 502
              /\ (call.pc = "log" /\ after.pc = "done") =>
                    /\ after.status \in UpstreamStatuses
                    /\ sessions'[call.sessionId].balanceSats
                           = call.session[1].balanceSats - call.costSats
                    /\ after.xBalanceRemaining = <<sessions'[call.sessionId].balanceSats>>
              /\ (call.pc \in {"session", "newSession", "invoice", "topup"}
                      /\ after # call /\ after.pc # "fetch")
                    => \A s \in SessionIds : sessions'[s] = sessions[s]]_vars

\* 25 -> 15 -> 5: after two requests at price 10 charged to the session that
\* started with 25, a third one got its 402 and the balance is 5
C6_Witness ==
    /\ calls[1].pc = "done" /\ calls[1].status = 402 /\ calls[1].sessionId = 1
    /\ sessions[1].balanceSats = 5
    /\ Len(requests) = 2
    /\ \A i \in 1..2 : requests[i].sessionId = 1 /\ requests[i].costSats = 10
    /\ PaidInto(1) = 0

\* C7: calculateFees returns platformFee = ceil(cost * feePercent / 100), that
\* is the least integer f with 100 * f >= cost * feePercent, devEarnings =
\* cost - platformFee and totalCost = cost.
C7_FeesRoundedUp ==
    res # << >> =>
        LET cost == arg[1].costSats
            feePercent == arg[1].feePercent
            fees == res[1]
        IN  /\ 100 * fees.platformFee >= cost * feePercent
            /\ 100 * (fees.platformFee - 1) < cost * feePercent
            /\ fees.devEarnings = cost - fees.platformFee
            /\ fees.totalCost = cost
            /\ fees.devEarnings + fees.platformFee = fees.totalCost
            /\ cost = 0 => fees.platformFee = 0 /\ fees.devEarnings = 0
            /\ (cost = 10 /\ feePercent = 5) => fees.platformFee = 1 /\ fees.devEarnings = 9

\* cost 10 at 5% gave 1 and 9
C7_Witness ==
    /\ arg = <<[costSats |-> 10, feePercent |-> 5]>>
    /\ res = <<[totalCost |-> 10, devEarnings |-> 9, platformFee |-> 1]>>

\* C8: in every row of the request log the two shares add up to the cost,
\* and no step changes or removes a row that is in the log.
C8_LogBalancedAppendOnly ==
    [][/\ Len(requests') >= Len(requests)
       /\ \A i \in 1..Len(requests) : requests'[i] = requests[i]
       /\ \A i \in 1..Len(requests') :
              requests'[i].devEarningsSats + requests'[i].platformFeeSats
                  = requests'[i].costSats]_vars

\* a second row was appended to a log whose first row carries a fee
C8_Witness ==
    /\ Len(requests) >= 2
    /\ requests[1].platformFeeSats > 0
    /\ requests[2].devEarningsSats > 0

\* the indices of the rules whose pattern matches the path
Matching(list, path) == {i \in 1..Len(list) : matchPath(list[i].pattern, path)}

\* C9: the pricer returns the price of the matching rule of least index, and
\* the default price when the list is null, empty or has no matching rule.
C9_FirstMatchWins ==
    res # << >> =>
        LET list == IF arg[1].rules = << >> THEN << >> ELSE arg[1].rules[1]
            hits == Matching(list, arg[1].path)
        IN  IF hits = {} THEN res[1] = arg[1].defaultPrice
            ELSE \E i \in hits : /\ \A j \in hits : i <= j
                                 /\ res[1] = list[i].price

\* two rules match at different prices and the first one's price came back
C9_Witness ==
    /\ res # << >>
    /\ arg[1].rules # << >>
    /\ Len(arg[1].rules[1]) = 2
    /\ Matching(arg[1].rules[1], arg[1].path) = {1, 2}
    /\ arg[1].rules[1][1].price # arg[1].rules[1][2].price
    /\ res[1] = arg[1].rules[1][1].price

\* the request carries a voucher that verified, or the row of a session whose
\* balance covered the price when it was read
Authorised(call) ==
    \/ call.verification # << >> /\ call.verification[1].valid
    \/ /\ call.session # << >>
       /\ call.sessionId \in SessionIds
       /\ call.session[1].balanceSats >= call.costSats

\* C10: a request at a price above zero is at the upstream fetch, or past
\* it, only with a voucher that verified or a session that covered the
\* price; any other one that has been answered got 401 or 402.
C10_ForwardedOnlyWhenPaid ==
    \A c \in CallSlots :
        calls[c].costSats > 0 =>
            /\ calls[c].pc \in {"fetch", "debit", "selectDeveloper", "credit", "log"}
                   => Authorised(calls[c])
            /\ calls[c].pc = "done" =>
                   \/ calls[c].status \in {401, 402}
                   \/ calls[c].xRequestCost # << >>
                   \/ calls[c].status = 502

\* a request at a price above zero, with no session, is at the fetch on a
\* voucher that verified
C10_Witness ==
    \E c \in CallSlots :
        /\ calls[c].pc = "fetch" /\ calls[c].costSats > 0
        /\ calls[c].session = << >>
        /\ calls[c].verification # << >> /\ calls[c].verification[1].valid

\* the handler has read the request and is past its first step
Arrived(c) == calls[c].pc = "idle" /\ calls'[c].pc # "idle"

\* the voucher of a request, << >> when it sent none or one that does not parse
Voucher(call) ==
    IF call.auth = << >> THEN << >> ELSE decodeMacaroon(call.auth[1].macaroon)

\* the voucher is one the server minted, with the preimage of its invoice
Genuine(call) ==
    /\ call.auth # << >>
    /\ call.auth[1].macaroon \in minted
    /\ Sha256(hexToBytes(call.auth[1].preimage)[1]) = Voucher(call)[1].paymentHash

\* C11: a request that presents a voucher whose gateway is not the gateway
\* of the request is not authorised by it: the verification fails and the
\* request does not go to the upstream fetch on it.
C11_OtherGatewayRejected ==
    [][\A c \in CallSlots :
          LET call == calls'[c]
          IN  (Arrived(c) /\ Voucher(call) # << >>
                  /\ Voucher(call)[1].gatewayId # call.gatewayId)
                  => /\ call.verification # << >>
                     /\ ~call.verification[1].valid
                     /\ call.pc # "fetch"]_vars

\* a minted voucher of the other gateway, not expired, with the right
\* preimage, was refused for its gateway
C11_Witness ==
    \E c \in CallSlots :
        /\ InFlight(calls[c])
        /\ Genuine(calls[c])
        /\ Voucher(calls[c])[1].gatewayId # calls[c].gatewayId
        /\ now <= Voucher(calls[c])[1].expires
        /\ calls[c].verification[1].error = "Macaroon not valid for this gateway"

\* C12: a voucher expires one hour after it is minted, and a request that
\* presents a voucher after its expiry time is not authorised by it.
C12_ExpiredRejected ==
    [][/\ \A m \in minted' \ minted : decodeMacaroon(m)[1].expires = now + 3600000
       /\ \A c \in CallSlots :
              LET call == calls'[c]
              IN  (Arrived(c) /\ Voucher(call) # << >> /\ now > Voucher(call)[1].expires)
                      => /\ call.verification # << >>
                         /\ ~call.verification[1].valid
                         /\ call.pc # "fetch"]_vars

\* a minted voucher, on its own gateway and with the right preimage, was
\* refused as expired
C12_Witness ==
    \E c \in CallSlots :
        /\ InFlight(calls[c])
        /\ Genuine(calls[c])
        /\ Voucher(calls[c])[1].gatewayId = calls[c].gatewayId
        /\ calls[c].verification[1].error = "Macaroon expired"

\* C13: a voucher authorises only requests for the path it was minted for
\* and at the price it was minted at: a request let through on a voucher
\* has the voucher's path and resolves to the voucher's price.
C13_BoundToPathAndPrice ==
    \A c \in CallSlots :
        LET call == calls[c]
        IN  (InFlight(call) /\ call.verification # << >> /\ call.verification[1].valid)
                => /\ Voucher(call)[1].path = call.path
                   /\ Voucher(call)[1].price = call.costSats

\* the resolved price of a request for an existing gateway
ResolvedPrice(call) ==
    findMatchingRule(gateways[call.gatewayId].rules, call.path,
                     gateways[call.gatewayId].pricePerRequestSats)

\* the handler has answered in its first step, without writing anything
\* and without asking the rail for an invoice
AnsweredAtOnce(c, status) ==
    /\ calls'[c].pc = "done"
    /\ calls'[c].status = status
    /\ calls'[c].writes = 0
    /\ UNCHANGED <<ledger, invoiceCount, minted>>

\* C14: a request for an unknown gateway id is answered 404 and a request
\* for an inactive gateway is answered 503, in the first step of the
\* handler: the request never reaches the upstream fetch and no session,
\* top-up, balance or log row is created or changed.
C14_UnknownOrInactiveGateway ==
    [][\A c \in CallSlots :
          Arrived(c) =>
              /\ calls'[c].gatewayId \notin DOMAIN gateways => AnsweredAtOnce(c, 404)
              /\ (/\ calls'[c].gatewayId \in DOMAIN gateways
                  /\ ~gateways[calls'[c].gatewayId].isActive) => AnsweredAtOnce(c, 503)]_vars

\* after some request was charged, one request was answered 503
C14_Witness ==
    /\ Len(requests) > 0
    /\ \E c \in CallSlots :
           /\ calls[c].pc = "done"
           /\ calls[c].status = 503
           /\ calls[c].gatewayId \in DOMAIN gateways
           /\ ~gateways[calls[c].gatewayId].isActive

\* C16: a request for an active gateway whose resolved price is 0 goes to
\* the upstream fetch in the first step of the handler, whatever session key
\* it carries, with no session to charge; and the steps of a request of
\* price 0 change no session, no developer, no top-up and no log row.
C16_FreeRouteNoLedger ==
    [][\A c \in CallSlots :
          /\ (/\ Arrived(c)
              /\ calls'[c].gatewayId \in DOMAIN gateways
              /\ gateways[calls'[c].gatewayId].isActive
              /\ ResolvedPrice(calls'[c]) = 0)
                 => /\ calls'[c].pc = "fetch"
                    /\ calls'[c].costSats = 0
                    /\ calls'[c].session = << >>
                    /\ UNCHANGED ledger
          /\ (/\ calls[c].pc = "fetch"
              /\ calls[c].costSats = 0
              /\ calls'[c] # calls[c])
                 => /\ calls'[c].pc = "done"
                    /\ calls'[c].writes = 0
                    /\ UNCHANGED ledger]_vars

\* a request for the free path that carries the key of an existing session
\* is on its way to the upstream
C16_Witness ==
    \E c \in CallSlots :
        /\ calls[c].pc = "fetch"
        /\ calls[c].path = FreePath
        /\ calls[c].costSats = 0
        /\ calls[c].key # << >>
        /\ \E n \in SessionIds : sessions[n].sessionKey = calls[c].key[1]

\* the request has a price and no voucher that verifies
Unpaid(call) ==
    /\ call.gateway # << >>
    /\ call.costSats > 0
    /\ ~(call.verification # << >> /\ call.verification[1].valid)

\* the program counters of the 402 flows
ChallengePcs == {"newSession", "invoice", "topup"}

\* C15: a request with a price and no valid voucher that sends no session
\* key enters a 402 flow, and a 402 flow ends with status 402 only; one that
\* sends a session key goes to the session lookup, and when no session has
\* that key the lookup answers 401 without a write, without an invoice and
\* with the ledger unchanged, never reaching the upstream fetch.
C15_NoKey402UnknownKey401 ==
    [][\A c \in CallSlots :
          /\ (Arrived(c) /\ Unpaid(calls'[c]))
                 => IF calls'[c].key = << >>
                    THEN calls'[c].pc \in ChallengePcs
                    ELSE calls'[c].pc = "session"
          /\ (calls[c].pc \in ChallengePcs /\ calls'[c].pc \notin ChallengePcs)
                 => calls'[c].pc = "done" /\ calls'[c].status = 402
          /\ (/\ calls[c].pc = "session"
              /\ calls'[c] # calls[c]
              /\ \A n \in SessionIds : sessions[n].sessionKey # calls[c].key[1])
                 => /\ calls'[c].pc = "done"
                    /\ calls'[c].status = 401
                    /\ calls'[c].writes = 0
                    /\ UNCHANGED <<ledger, invoiceCount, minted>>]_vars

\* after a voucher was minted, a request with a price and a key of no
\* session was answered 401
C15_Witness ==
    \E c \in CallSlots :
        /\ calls[c].pc = "done"
        /\ calls[c].status = 401
        /\ calls[c].costSats > 0
        /\ minted # {}

\* C17: a request whose voucher verifies goes to the upstream fetch with no
\* session to charge, whatever session key it carries, and its steps change
\* no session, no developer, no top-up and no log row.
C17_VoucherNoLedger ==
    [][\A c \in CallSlots :
          /\ (/\ Arrived(c)
              /\ calls'[c].verification # << >>
              /\ calls'[c].verification[1].valid)
                 => /\ calls'[c].pc = "fetch"
                    /\ calls'[c].session = << >>
                    /\ UNCHANGED ledger
          /\ (/\ calls[c].pc = "fetch"
              /\ calls[c].verification # << >>
              /\ calls[c].verification[1].valid
              /\ calls'[c] # calls[c])
                 => /\ calls'[c].pc = "done"
                    /\ calls'[c].writes = 0
                    /\ UNCHANGED ledger]_vars

\* a request with a voucher that verifies and the key of a session that
\* could pay the price is on its way to the upstream
C17_Witness ==
    \E c \in CallSlots :
        /\ calls[c].pc = "fetch"
        /\ calls[c].verification # << >>
        /\ calls[c].verification[1].valid
        /\ calls[c].key # << >>
        /\ \E n \in SessionIds :
               /\ sessions[n].sessionKey = calls[c].key[1]
               /\ sessions[n].balanceSats >= calls[c].costSats

\* the sessions that have the key the request carries
Keyed(call) ==
    IF call.key = << >> THEN {}
    ELSE {n \in SessionIds : sessions[n].sessionKey = call.key[1]}

\* C18: when the session lookup finds the session of the key and its
\* balance is below the price, the 402 flow that follows works on that
\* session: it creates no session row, and the top-up row it inserts is a
\* pending one with that session's id.
C18_ExistingSessionReused ==
    [][\A c \in CallSlots :
          /\ (calls[c].pc = "session" /\ calls'[c].pc \in ChallengePcs)
                 => /\ calls'[c].pc = "invoice"
                    /\ calls'[c].session # << >>
                    /\ calls'[c].sessionId \in Keyed(calls[c])
                    /\ sessions[calls'[c].sessionId].balanceSats < calls[c].costSats
          /\ (/\ calls[c].pc \in ChallengePcs
              /\ calls[c].session # << >>
              /\ calls'[c] # calls[c])
                 => /\ Len(sessions') = Len(sessions)
                    /\ calls'[c].sessionId \in Keyed(calls[c]) \cup {0}
                    /\ topups' # topups
                           => /\ Len(topups') = Len(topups) + 1
                              /\ topups'[Len(topups')].sessionId \in Keyed(calls[c])
                              /\ topups'[Len(topups')].status = "pending"]_vars

\* a browser with the key of the opening session, whose balance no longer
\* covers the price, was answered 402 with an invoice, and the pending
\* top-up is on that session
C18_Witness ==
    \E c \in CallSlots :
        /\ calls[c].pc = "done"
        /\ calls[c].status = 402
        /\ calls[c].hasInvoice
        /\ calls[c].sessionId = 1
        /\ sessions[1].balanceSats < calls[c].costSats
        /\ Len(sessions) = 1
        /\ \E t \in 1..Len(topups) :
               topups[t].sessionId = 1 /\ topups[t].status = "pending"

\* C19: when the invoice request of a 402 flow fails (the handler leaves
\* the invoice step and the rail has issued no invoice), the response is a
\* 402 without invoice, voucher and challenge header, no top-up row is
\* written and no voucher is minted, for browsers and API clients, with a
\* session and without one.
C19_InvoiceFailureStill402 ==
    [][\A c \in CallSlots :
          (/\ calls[c].pc = "invoice"
           /\ calls'[c] # calls[c]
           /\ invoiceCount' = invoiceCount)
              => /\ calls'[c].pc = "done"
                 /\ calls'[c].status = 402
                 /\ ~calls'[c].hasInvoice
                 /\ ~calls'[c].wwwAuthenticate
                 /\ topups' = topups
                 /\ minted' = minted]_vars

\* a browser without a key got a session row and then a 402 without an
\* invoice, with no top-up row, from a rail that has issued no invoice
C19_Witness ==
    \E c \in CallSlots :
        /\ calls[c].pc = "done"
        /\ calls[c].status = 402
        /\ ~calls[c].hasInvoice
        /\ calls[c].sessionId = Len(sessions)
        /\ Len(sessions) > 1
        /\ topups = << >>
        /\ invoiceCount = 0

\* C20: every 402 that answers an API client after the rail issued the
\* invoice carries the invoice and the voucher in its body and the
\* WWW-Authenticate header, in the flow without a session key and in the
\* flow of a session whose balance is below the price.
C20_Api402CarriesChallenge ==
    [][\A c \in CallSlots :
          (/\ calls[c].pc = "invoice"
           /\ ~calls[c].isBrowser
           /\ invoiceCount' = invoiceCount + 1)
              => /\ calls'[c].pc = "done"
                 /\ calls'[c].status = 402
                 /\ calls'[c].hasInvoice
                 /\ minted' # minted
                 /\ calls'[c].wwwAuthenticate]_vars

\* the program counters of a settlement
SettlementPcs == {"debit", "selectDeveloper", "credit", "log"}

C22_FailedPayoutLosesNothing ==
    \A p \in PayoutSlots :
        LET payout == payoutCalls[p]
        IN  /\ (payout.pc = "done" /\ payout.status = 200)
                   => payouts[payout.payoutId].status = "completed"
            /\ (/\ payout.pc = "done" /\ payout.status = 500
                /\ Len(payouts) = 1 /\ cron.pc = "idle"
                /\ \A c \in CallSlots : ~InFlight(calls[c]))
                   => /\ payouts[payout.payoutId].status = "failed"
                      /\ developers[payout.developerId].balanceSats
                             = PayoutDeveloperRows[payout.developerId].balanceSats
                                   + EarnedBy(payout.developerId)

\* C23: the stored balance of every developer is at least 0, whatever the
\* interleaving of settlements, manual payouts and the scheduled job.
C23_EarnerBalanceNeverNegative ==
    \A d \in DOMAIN developers : developers[d].balanceSats >= 0

\* a settlement is in the log, a manual payout and a payout of the job have
\* both been recorded for one developer, and that developer's balance is 0
C23_Witness ==
    /\ requests # << >>
    /\ \E m, a \in 1..Len(payouts) :
           /\ ~payouts[m].isAutoPayout /\ payouts[a].isAutoPayout
           /\ payouts[m].developerId = payouts[a].developerId
           /\ developers[payouts[m].developerId].balanceSats = 0

\* the rows of the job's list that the loop works on
Worked(job) ==
    {n \in 1..Len(job.eligibleDevs) : ~noAddress(job.eligibleDevs[n])}

\* C30: the job selects exactly the developers with a balance of at least
\* 100 and an address, with the balance it read; it works on each selected
\* developer once, in order: it sets the balance to 0, records a payout of
\* the whole balance read and attempts that payment; after a successful
\* payment the record is completed and the balance is left as it is, after
\* a failed one the balance is set to the amount and the record is failed.
\* When the job is done every developer it worked on has exactly one payout
\* record of the job, completed or failed, and every other developer none.
C30_ScheduledPayoutOncePerEligible ==
    [][/\ (cron.pc = "idle" /\ cron'.pc # "idle")
              => /\ \A d \in DOMAIN developers :
                        (developers[d].balanceSats >= 100
                             /\ developers[d].lightningAddress # << >>)
                            <=> \E n \in 1..Len(cron'.eligibleDevs) :
                                    /\ cron'.eligibleDevs[n].id = d
                                    /\ cron'.eligibleDevs[n].balanceSats
                                           = developers[d].balanceSats
                 /\ \A n, m \in 1..Len(cron'.eligibleDevs) :
                        cron'.eligibleDevs[n].id = cron'.eligibleDevs[m].id => n = m
       /\ cron.pc # "idle"
              => /\ cron'.eligibleDevs = cron.eligibleDevs
                 /\ cron'.index >= cron.index
                 /\ (cron'.index > cron.index) => cron.pc \in {"complete", "markFailed"}
       /\ (cron.pc = "deduct" /\ cron'.pc # "deduct")
              => /\ cron'.pc = "record"
                 /\ developers'[cron.eligibleDevs[cron.index].id].balanceSats = 0
       /\ (cron.pc = "record" /\ cron'.pc # "record")
              => /\ cron'.pc = "pay"
                 /\ payouts'[cron'.payoutId] =
                        [developerId |-> cron.eligibleDevs[cron.index].id,
                         amountSats |-> cron.eligibleDevs[cron.index].balanceSats,
                         status |-> "pending", isAutoPayout |-> TRUE]
       /\ (cron.pc = "pay" /\ cron'.pc # "pay")
              => cron'.pc \in {"complete", "refund"} /\ UNCHANGED <<developers, payouts>>
       /\ (cron.pc = "complete" /\ cron'.pc # "complete")
              => /\ payouts'[cron.payoutId].status = "completed"
                 /\ UNCHANGED developers
       /\ (cron.pc = "refund" /\ cron'.pc # "refund")
              => /\ cron'.pc = "markFailed"
                 /\ developers'[cron.eligibleDevs[cron.index].id].balanceSats
                        = cron.eligibleDevs[cron.index].balanceSats
       /\ (cron.pc = "markFailed" /\ cron'.pc # "markFailed")
              => payouts'[cron.payoutId].status = "failed"
       /\ cron'.pc = "done"
              => \A d \in DOMAIN developers :
                     LET rows == {r \in 1..Len(payouts') :
                                     payouts'[r].isAutoPayout /\ payouts'[r].developerId = d}
                         mine == {n \in Worked(cron') : cron'.eligibleDevs[n].id = d}
                     IN  IF mine = {} THEN rows = {}
                         ELSE /\ Cardinality(rows) = 1
                              /\ \A r \in rows :
                                     /\ payouts'[r].status \in {"completed", "failed"}
                                     /\ \A n \in mine :
                                            payouts'[r].amountSats
                                                = cron'.eligibleDevs[n].balanceSats]_vars

\* the job is done: it had selected d1 and the developer with the empty
\* address, its payment to d1 failed, d1 holds the amount again, and the
\* developers below the minimum or without an address have no payout record
C30_Witness ==
    /\ cron.pc = "done"
    /\ Len(cron.eligibleDevs) = 2
    /\ \E r \in 1..Len(payouts) :
           /\ payouts[r].isAutoPayout
           /\ payouts[r].developerId = "d1"
           /\ payouts[r].status = "failed"
           /\ developers["d1"].balanceSats = payouts[r].amountSats
    /\ \A r \in 1..Len(payouts) : payouts[r].developerId = "d1"

\* polling has ended: the page redirects or shows the timed-out message
PollingEnded == page.pc \in {"redirect", "timedOut"}

\* C24: the poll loop of the payment page ends, by the redirect or by the
\* timed-out message; it never makes more than 120 polls, it shows the
\* timed-out message only after the 120th poll that did not see the payment,
\* and once ended it polls no more.
C24_PollLoopTerminates ==
    /\ <>PollingEnded
    /\ [](page.attempts <= 120)
    /\ [](page.pc = "timedOut" => page.attempts = 120)
    /\ [](page.pc = "wait" => page.attempts < 120)
    /\ [][PollingEnded => page' = page]_vars

\* 120 polls threw or saw the top-up pending and the page shows the
\* timed-out message
C24_Witness == page.pc = "timedOut" /\ page.attempts = 120

C26_CredentialsStrippedRestForwarded ==
    res # << >> =>
        LET inbound == arg[1]
            upstream == res[1]
        IN  /\ \A j \in 1..Len(upstream.query) : upstream.query[j].key # "session_key"
            /\ DOMAIN upstream.headers \cap
                   {"x-session-key", "authorization", "host", "connection", "keep-alive",
                    "transfer-encoding", "te", "trailer", "upgrade"} = {}
            /\ \A i \in 1..Len(inbound.query) :
                   inbound.query[i].key # "session_key"
                       => \E j \in 1..Len(upstream.query) :
                              upstream.query[j] = inbound.query[i]
            /\ \A key \in DOMAIN inbound.headers :
                   key \notin {"x-session-key", "authorization", "host", "connection",
                               "keep-alive", "transfer-encoding", "te", "trailer", "upgrade"}
                       => /\ key \in DOMAIN upstream.headers
                          /\ upstream.headers[key] = inbound.headers[key]

Carried(handler) ==
    IF handler.signedEvent = << >> THEN << >>
    ELSE extractChallengeFromEvent(handler.signedEvent[1])

\* C28: the sign-in route accepts a signed event only if its tags carry a
\* challenge that the server issued, that is at most 60 seconds old and that
\* no accepted event has carried before; accepting the event uses the
\* challenge up.
C28_ChallengeFreshAndSingleUse ==
    [][(nostr.pc = "idle" /\ nostr'.pc = "select")
          => LET challenge == Carried(nostr')
                 store == nostr.challengeStore
             IN  /\ challenge # << >>
                 /\ challenge[1] \in DOMAIN store
                 /\ ~store[challenge[1]].used
                 /\ now - store[challenge[1]].createdAt <= 60000
                 /\ nostr'.challengeStore[challenge[1]].used]_vars

\* requests of the address that the limiter has let through in the windows
\* that are open: all of them came within the last windowMs
RECURSIVE AdmittedOn(_, _, _)
AdmittedOn(ip, mount, paths) ==
    IF paths = {} THEN 0
    ELSE LET path == CHOOSE q \in paths : TRUE
             hits == Hits(ip, path)
             max == RateLimits[mount].max
         IN  (IF hits > max THEN max ELSE hits)
                 + AdmittedOn(ip, mount, paths \ {path})

Admitted(ip, mount) == AdmittedOn(ip, mount, PathsOf[mount])

MountOf(path) == CHOOSE mount \in DOMAIN RateLimits : path \in PathsOf[mount]

\* C29: within one minute the limiter lets through at most 100 requests of
\* one client address under /api and at most 200 under /g; a request of an
\* address that has had its limit in the open window is answered 429 and
\* does not go on to the route.
C29_AtMostLimitPerAddress ==
    /\ [](\A ip \in LimitedClients, mount \in DOMAIN RateLimits :
              Admitted(ip, mount) <= RateLimits[mount].max)
    /\ [][limiter' # limiter
             => LET ip == limiter'.key[1]
                    mount == MountOf(limiter'.key[2])
                IN  Admitted(ip, mount) >= RateLimits[mount].max
                        => limiter'.status = 429]_vars

\* C31: the completed platform sweeps never add up to more than the
\* platform fees of the request log, also when runs of the job overlap, and a
\* run inserts a sweep only when the fees not yet swept are at least 100 sats.
C31_FeesSweptAtMostOnce ==
    /\ [](sweptSoFar(platformSweeps) <= sumOf(requests, "platformFeeSats"))
    /\ [][\A w \in SweepSlots :
              (sweepers[w].pc = "insert" /\ sweepers'[w].pc = "pay")
                  => sumOf(requests, "platformFeeSats") - sweptSoFar(platformSweeps)
                         >= 100]_vars

\* C32: getPlatformFeePercent returns 5 when the configured value is
\* undefined, not a number, negative or above 100, and the parsed value
\* otherwise; calculateFees without a fee percent charges 5 percent, rounded
\* up: a cost of 100 gives a platform fee of 5 and earnings of 95.
C32_DefaultFeeIsFive ==
    res # << >> =>
        LET envValue == arg[1].envValue
            parsed == IF envValue = << >> THEN << >> ELSE parseFloat(envValue[1])
            expected == IF parsed = << >> THEN 5
                        ELSE IF parsed[1] < 0 \/ parsed[1] > 100 THEN 5
                        ELSE parsed[1]
        IN  /\ res[1].percent = expected
            /\ res[1].fees = calculateFees(arg[1].costSats, 5)
            /\ arg[1].costSats = 100
                   => res[1].fees.platformFee = 5 /\ res[1].fees.devEarnings = 95

\* the four checks of a voucher that decodes, each on its own
SignatureOk(m) == verifyMacaroonSignature(m, ServerSecret)
NotExpired(m) == ~(now > m.expires)
GatewayOk(m, gatewayId) == m.gatewayId = gatewayId
PreimageOk(m, preimage) ==
    /\ hexToBytes(preimage) # << >>
    /\ Sha256(hexToBytes(preimage)[1]) = m.paymentHash

fieldsOf(m) ==
    [paymentHash |-> m.paymentHash, gatewayId |-> m.gatewayId, path |-> m.path,
     price |-> m.price, expires |-> m.expires]

\* the voucher carries the signature the server gave to other fields
Edited(m) ==
    \E f \in MintedFields :
        m.signature = signMacaroon(f, ServerSecret) /\ f # fieldsOf(m)

\* C34: a voucher in which the payment hash, the gateway id, the path, the
\* price or the expiry is not what the server signed is refused with the
\* signature error, whatever the preimage, the gateway and the time.
C34_EditedVoucherBadSignature ==
    (res # << >> /\ decodeMacaroon(arg[1].token.macaroon) # << >>
                /\ Edited(decodeMacaroon(arg[1].token.macaroon)[1]))
        => res[1] = [valid |-> FALSE, error |-> "Invalid macaroon signature"]

\* a voucher whose price was set to 0, not expired, shown to its gateway
\* with the preimage of its invoice, was refused for its signature
C34_Witness ==
    /\ res # << >>
    /\ decodeMacaroon(arg[1].token.macaroon) # << >>
    /\ LET m == decodeMacaroon(arg[1].token.macaroon)[1]
       IN  /\ Edited(m)
           /\ m.price = 0
           /\ NotExpired(m)
           /\ GatewayOk(m, arg[1].gatewayId)
           /\ PreimageOk(m, arg[1].token.preimage)
    /\ res[1].error = "Invalid macaroon signature"

RECURSIVE segments(_)
\* the pieces of a string between its slashes
segments(chars) ==
    IF \A i \in DOMAIN chars : chars[i] # Slash THEN <<chars>>
    ELSE LET cut == CHOOSE i \in DOMAIN chars :
                        chars[i] = Slash /\ \A j \in 1..(i - 1) : chars[j] # Slash
         IN  <<SubSeq(chars, 1, cut - 1)>>
                 \o segments(SubSeq(chars, cut + 1, Len(chars)))

RECURSIVE segmentsMatch(_, _)
\* "**" stands for any number of segments, "*" for one, every other piece
\* of the pattern for the segment that is equal to it
segmentsMatch(pattern, path) ==
    IF pattern = << >> THEN path = << >>
    ELSE IF Head(pattern) = <<"*", "*">>
    THEN \E i \in 0..Len(path) :
             segmentsMatch(Tail(pattern), SubSeq(path, i + 1, Len(path)))
    ELSE /\ path # << >>
         /\ Head(pattern) = <<"*">> \/ Head(pattern) = Head(path)
         /\ segmentsMatch(Tail(pattern), Tail(path))

\* C35: matchPath(pattern, path) holds exactly when the pattern matches the
\* whole path, with * for exactly one segment, ** for zero or more segments
\* and every other character of the pattern for itself only.
C35_GlobSemantics ==
    res # << >> =>
        (res[1] <=> segmentsMatch(segments(arg[1].pattern), segments(arg[1].path)))

\* C36: a request paid by a session whose upstream fetch returns is settled
\* whatever status the upstream answered: it goes on to the debit, the
\* session is debited the price, the developer credited their share, and the
\* row that is logged carries the price, the shares and the status code of
\* the upstream, which is also the status of the response.
C36_SettledWhateverStatus ==
    [][\A c \in CallSlots :
          LET call == calls[c]
              after == calls'[c]
              fees == calculateFees(call.costSats, getPlatformFeePercent(PlatformFeeEnv))
          IN  /\ (/\ call.pc = "fetch" /\ after # call
                  /\ call.session # << >> /\ call.costSats > 0
                  /\ ~(after.pc = "done" /\ after.status = 502))
                     => /\ after.pc = "debit"
                        /\ after.statusCode \in RoundTripStatuses
              /\ (call.pc = "debit" /\ after.pc = "selectDeveloper")
                     => sessions'[call.sessionId].balanceSats
                            = call.session[1].balanceSats - call.costSats
              /\ (call.pc = "credit" /\ after.pc = "log" /\ call.developer # << >>)
                     => developers'[call.gateway[1].developerId].balanceSats
                            = call.developer[1].balanceSats + fees.devEarnings
              /\ (call.pc = "log" /\ after.pc = "done")
                     => /\ Len(requests') = Len(requests) + 1
                        /\ LET row == requests'[Len(requests')]
                           IN  /\ row.statusCode = call.statusCode
                               /\ row.sessionId = call.sessionId
                               /\ row.costSats = call.costSats
                               /\ row.devEarningsSats = fees.devEarnings
                               /\ row.platformFeeSats = fees.platformFee
                        /\ after.status = call.statusCode
                        /\ after.writes = 3]_vars

\* the session has paid for a 404 and for a 500 of the upstream: both are in
\* the log at the price, and the balance is down by both
C36_Witness ==
    /\ Quiescent
    /\ Len(requests) = 2
    /\ {requests[1].statusCode, requests[2].statusCode} = {404, 500}
    /\ requests[1].sessionId = requests[2].sessionId
    /\ requests[1].costSats > 0
    /\ sessions[requests[1].sessionId].balanceSats
           = OpeningBalanceSeq - requests[1].costSats - requests[2].costSats
    /\ developers[gateways[requests[1].gatewayId].developerId].balanceSats
           = requests[1].devEarningsSats + requests[2].devEarningsSats

\* what the paid top-ups brought into session s, over the balance it started
\* the run with, less what the log charged to it
FundsOf(s) == Opening(s) + PaidInto(s) - ChargedTo(s)

\* C37: session funds are conserved: when no request and no status check is
\* in flight, the balance of every session is what its paid top-ups brought
\* in minus the costSats of its log rows, whatever the interleaving of
\* settlements and status checks on the session.
C37_SessionFundsConserved ==
    (/\ \A c \in CallSlots : calls[c].pc \in {"idle", "done"}
     /\ \A k \in CheckSlots : checks[k].pc \in {"idle", "done"})
        => \A s \in 1..Len(sessions) : sessions[s].balanceSats = FundsOf(s)

\* the amounts of developer d's payout rows, manual and automatic, that are
\* marked completed
PaidOutTo(d) ==
    SumOver([n \in 1..Len(payouts) |-> payouts[n].amountSats],
            {n \in 1..Len(payouts) :
                payouts[n].developerId = d /\ payouts[n].status = "completed"})

\* no proxy request, no manual payout and no run of the scheduled job is
\* between its first step and its last
AtRest ==
    /\ \A c \in CallSlots : ~InFlight(calls[c])
    /\ \A p \in PayoutSlots : ~InFlight(payoutCalls[p])
    /\ ~InFlight(cron)

\* C38: earner funds are conserved: with nothing in flight, the balance of
\* every developer plus their completed payouts is the balance they started
\* with plus the devEarningsSats of the log rows of their gateways, whatever
\* the interleaving of settlements, manual payouts and the scheduled job.
C38_EarnerFundsConserved ==
    AtRest =>
        \A d \in DOMAIN developers :
            developers[d].balanceSats + PaidOutTo(d)
                = PayoutDeveloperRows[d].balanceSats + EarnedBy(d)

\* the status check k asks about a top-up of another session than the one
\* whose key it came with
Foreign(k) ==
    /\ checks[k].topupId \in 1..Len(topups)
    /\ topups[checks[k].topupId].sessionId # checks[k].sessionId

\* C39: a top-up is settled only through its own session and never goes
\* back: a status check that came with the key of another session answers
\* 404 and writes nothing; a check past the lookup holds a top-up of its own
\* session; a top-up changes only from pending to paid, in the step of a
\* check of its session, and the credit that follows changes the balance of
\* that session only; a paid top-up stays paid and bound to its session.
C39_TopupBoundToSession ==
    /\ [](\A k \in CheckSlots :
            checks[k].pc \in {"rail", "markPaid", "credit"}
                => /\ ~Foreign(k)
                   /\ checks[k].topupId \in 1..Len(topups)
                   /\ checks[k].topup = <<[topups[checks[k].topupId] EXCEPT
                                               !.status = "pending", !.paidAt = << >>]>>)
    /\ [][/\ \A k \in CheckSlots :
                /\ (checks[k].pc = "topup" /\ Foreign(k) /\ checks'[k] # checks[k])
                       => /\ checks'[k].pc = "done"
                          /\ checks'[k].status = 404
                          /\ checks'[k].newBalance = << >>
                          /\ ledger' = ledger
                /\ (checks[k].pc = "credit" /\ checks'[k] # checks[k])
                       => /\ topups' = topups
                          /\ \A s \in 1..Len(sessions) :
                                 sessions'[s] # sessions[s]
                                     => s = topups[checks[k].topupId].sessionId
          /\ \A t \in 1..Len(topups) :
                /\ t \in 1..Len(topups')
                /\ topups'[t].sessionId = topups[t].sessionId
                /\ topups'[t].amountSats = topups[t].amountSats
                /\ topups[t].status = "paid" => topups'[t] = topups[t]
                /\ topups'[t] # topups[t]
                       => /\ topups'[t].status = "paid"
                          /\ \E k \in CheckSlots :
                                 /\ checks[k].pc = "markPaid"
                                 /\ checks'[k].pc = "credit"
                                 /\ checks[k].topupId = t
                                 /\ checks[k].sessionId = topups[t].sessionId]_vars

\* a check with the key of another session was answered 404 for a top-up
\* that a check of its own session had found settled and credited
C39_Witness ==
    \E k, j \in CheckSlots :
        /\ checks[k].pc = "done" /\ checks[k].status = 404
        /\ checks[k].topupId \in 1..Len(topups)
        /\ topups[checks[k].topupId].status = "paid"
        /\ checks[j].pc = "done" /\ checks[j].status = 200
        /\ checks[j].topupId = checks[k].topupId
        /\ checks[j].newBalance
               = <<sessions[topups[checks[j].topupId].sessionId].balanceSats>>

====
